---- MODULE Spec2Model ----
(***************************************************************************)
(* Verification model of the anyviewer remote-desktop engine (src-tauri).  *)
(*                                                                         *)
(* Three subsystems are modelled, each with its own specification:         *)
(*   Spec      permissions/mod.rs (Permission Store), the input handlers   *)
(*             of input/enhanced_input.rs and ConnectionManager teardown   *)
(*   SpecArb   network/connection_requests.rs (Request Arbiter)            *)
(*   SpecConn  network/connection_manager.rs with relay_client.rs and      *)
(*             p2p.rs (bring-up, fallback, status machine)                 *)
(* A handler that holds its locks for its whole body is one action.        *)
(***************************************************************************)
EXTENDS Integers, Sequences, FiniteSets, TLC

(***************************************************************************)
(* Bounds of the model                                                     *)
(***************************************************************************)
\* the permission clock runs 0..MaxTime, in minutes
MaxTime == 3
\* number of request ids (uuid v4, never reused) request_permission may mint
MaxRequests == 1

\* live reader tasks of the relay client (one per successful RelayClient::connect)
MaxReaders == 2
\* RelayClientEvents waiting for the relay event task
MaxQueue == 2

\* the arbiter clock runs 0..MaxArbTime, in seconds
MaxArbTime == 63
\* connection requests are created or delivered during the seconds 0..MaxArrival
MaxArrival == 1
\* uuids create_connection_request may mint
MaxCreated == 1
\* discovery ConnectionRequest datagrams delivered to the arbiter
MaxDeliveries == 2

\* the seconds counted since the connection status was last written
MaxStatusAge == 31

\* times NetworkDiscovery::start starts the service
MaxStarts == 2
\* streaming loops alive at once
MaxLoops == 2

\* permission requests made through the request_permission command
MaxCmdRequests == 2

\* draws of one generate_connection_id call that are followed one at a time
MaxCollisions == 1
\* times one id is handed out and not yet released
MaxOutstanding == 2

\* acceptor tasks start_host has spawned (they never end)
MaxAcceptors == 2

\* longest run of digits in a string given to parse_connection_id
MaxDigits == 8
\* characters other than the digits of the run in such a string
MaxExtra == 2

\* largest max_size a FrameBuffer is built with or set to
MaxFrames == 2
\* frames numbered by one FrameBuffer
MaxFrameId == 3
\* ticks of the clock the frames are stamped with
MaxFrameTime == 1

\* frames the streaming loops push
MaxStreamFrames == 2

\* pixels of one block that a captured frame changes beyond the threshold
\* (besides the frames that change a block entirely)
MaxDiffPixels == 2
MaxDiscTicks == 6
MaxCodecFrames == 2
MaxModifiers == 2
MaxFileSize == 5

\* Option::None of an integer-valued Option
None == -1

(***************************************************************************)
(* permissions/mod.rs: types and inputs                                    *)
(***************************************************************************)
Permission ==
    {"ScreenView", "InputControl", "FileTransfer", "Clipboard", "AudioAccess", "SystemInfo"}

\* connection ids of remote peers, and the device name each one reports
ConnIds == {"c1", "c2"}
DeviceName(c) == IF c = "c1" THEN "laptop" ELSE "kiosk"

\* capability lists carried by requests, responses and revocations
PermSets == {{"ScreenView"}, {"ScreenView", "InputControl"}}
\* duration_minutes: Option<u32>
Durations == {None, 1}

\* PermissionConfig::default()
DefaultPermissionConfig ==
    [ max_concurrent_connections |-> 3,
      enable_whitelist |-> FALSE,
      whitelisted_devices |-> {},
      default_session_duration_minutes |-> 60 ]

\* configurations update_config is called with
ConfigChoices ==
    { DefaultPermissionConfig,
      [DefaultPermissionConfig EXCEPT !.max_concurrent_connections = 1],
      [DefaultPermissionConfig EXCEPT !.max_concurrent_connections = 1,
                                      !.enable_whitelist = TRUE,
                                      !.whitelisted_devices = {"laptop"},
                                      !.default_session_duration_minutes = 1] }

\* Duration::minutes(5) added to Utc::now() in request_permission
RequestExpiryMinutes == 5
\* tokio::time::interval(Duration::from_secs(60)): one minute of the clock
CleanupIntervalMinutes == 1

PermissionResponses ==
    [type : {"Granted"}, permissions : PermSets, duration_minutes : Durations]
        \cup {[type |-> "Denied"], [type |-> "Expired"]}

VARIABLES
    now,               \* Utc::now(), whole minutes
    config,            \* PermissionManager.config
    pending_requests,  \* PermissionManager.pending_requests: id -> request
    active_grants,     \* PermissionManager.active_grants: connection_id -> grant
    event_sender,      \* PermissionManager.event_sender is Some
    next_cleanup,      \* next tick of the cleanup task's interval, None before initialize
    next_request_id,   \* number of uuids minted so far
    emitted,           \* PermissionEvents sent by the most recent handler
    perm_result,       \* "Ok" or "Err": what the most recent PermissionManager call returned
    last_grant,        \* history: per connection, <<>> or <<the most recent grant call>>
    input_config,      \* EnhancedInputManager.config
    last_input         \* history: the most recent input event and what was done with it

\* network/connection_manager.rs, network/relay_client.rs, network/p2p.rs
VARIABLES
    conn_config,           \* ConnectionManager.config
    current_connection_id, \* ConnectionManager.current_connection_id: <<>> or <<ConnectionId>>
    p2p_manager,           \* ConnectionManager.p2p_manager is Some
    relay_client,          \* ConnectionManager.relay_client is Some
    connection_status,     \* ConnectionManager.connection_status
    relay_enabled_copy,    \* RelayClient.config.enabled, copied when the client is built
    relay_is_connected,    \* RelayClient.is_connected
    relay_is_registered,   \* RelayClient.is_registered
    relay_connection_id,   \* RelayClient.connection_id: <<>> or <<formatted id>>
    relay_readers,         \* live reader tasks whose event channel a relay event task drains
    relay_orphan_readers,  \* live reader tasks whose event receiver has been dropped
    relay_events,          \* RelayClientEvents sent and not yet taken by a relay event task
    p2p_is_host,           \* P2PManager.is_host
    p2p_has_id,            \* P2PManager.current_connection_id is Some
    conn_result,           \* history: the most recent ConnectionManager call and its outcome
    status_age             \* history: seconds since connection_status was last written

permVars == <<now, config, pending_requests, active_grants, event_sender, next_cleanup,
              next_request_id, emitted, perm_result, last_grant>>
inputVars == <<input_config, last_input>>
\* network/connection_requests.rs
VARIABLES
    arb_now,             \* SystemTime::now(), whole seconds
    arb_pending,         \* ConnectionRequestManager.pending_requests: id -> PendingRequest
    arb_next_cleanup,    \* next tick of the interval of run_cleanup_task
    arb_created,         \* number of uuids minted so far
    arb_delivered,       \* number of discovery datagrams handled so far
    arb_request_updates, \* per id, requests sent on request_updates_tx
    arb_outcomes,        \* per id, the responses sent on response_updates_tx, in order
    arb_result,          \* "Ok" or "Err": what the most recent arbiter call returned
    arb_inserted_at,     \* history: per id, when it last entered the Pending set (None: never)
    arb_left             \* history: per id, the ways it has left the Pending set

arbVars == <<arb_now, arb_pending, arb_next_cleanup, arb_created, arb_delivered,
             arb_request_updates, arb_outcomes, arb_result, arb_inserted_at, arb_left>>
\* network/discovery.rs and streaming/mod.rs
VARIABLES
    disc_is_running,      \* NetworkDiscovery.is_running
    discovered_devices,   \* NetworkDiscovery.discovered_devices: the records of the table
    disc_starts,          \* times start has started the service
    disc_goodbyes,        \* Goodbye messages broadcast so far
    disc_last,            \* history: the most recent NetworkDiscovery call
    disc_now,             \* SystemTime::now() in seconds
    disc_next_cleanup,    \* when cleanup_interval of run_cleanup_task ticks next
    device_updates,       \* device lists sent on device_updates_tx so far
    device_updates_last,  \* the device list sent last on device_updates_tx
    disc_step,            \* history: the most recent listener or cleanup step
    disc_listener,        \* the datagram run_udp_listener has received and not yet handled
    disc_announcers_checking,  \* run_announcements tasks at the test of is_running
    disc_announcers_ticking,   \* run_announcements tasks waiting for announce_interval
    disc_announce_stopped,     \* history: the last Announce was broadcast while not running
    is_streaming,         \* StreamingManager.is_streaming
    start_time,           \* StreamingManager.start_time is Some
    stream_loops,         \* streaming loops spawned and not yet ended
    stream_last           \* history: the most recent StreamingManager call

\* main.rs: the command handlers keep no state of their own; these record what
\* the front end has seen
VARIABLES
    cmd_result,           \* history: the most recent command and what it returned
    cmd_hosting,          \* history: transport of the latest start_hosting_with_fallback
                          \* that returned Ok, "none" when the latest one failed
    cmd_requested,        \* history: request id -> connection id, one entry per id
                          \* request_permission returned
    cmd_granted           \* history: connection ids whose request was answered Granted
                          \* by a respond_to_permission_request that returned Ok

cmdVars == <<cmd_result, cmd_hosting, cmd_requested, cmd_granted>>
\* utils/id_generator.rs: one IdGenerator shared by the threads of the host process
VARIABLES
    used_ids,             \* IdGenerator.used_ids: the numeric ids reserved
    id_pc,                \* per thread: "idle", "loop" (inside generate_connection_id,
                          \* before a draw) or "checked" (its draw passed the read-locked
                          \* contains_key test, the write lock is not yet taken)
    id_attempts,          \* per thread: the local `attempts`
    id_drawn,             \* per thread: the local `numeric_id`
    id_result,            \* per thread: history, what its latest call returned
    outstanding           \* history: per id, the calls that returned it and were not
                          \* followed by a release_id of it yet

idVars == <<used_ids, id_pc, id_attempts, id_drawn, id_result, outstanding>>
\* network/p2p.rs: one P2PManager with the IdGenerator it owns
VARIABLES
    host_used_ids,              \* id_generator.used_ids
    host_current_connection_id, \* current_connection_id: <<>> or <<numeric id>>
    host_is_host,               \* is_host
    host_acceptors,             \* acceptor tasks spawned by start_host, each with its listener
    host_active_connections,    \* active_connections: the peers connected
    host_result                 \* history: the most recent call and whether it returned Ok

hostVars == <<host_used_ids, host_current_connection_id, host_is_host, host_acceptors,
              host_active_connections, host_result>>
\* utils/id_generator.rs: parse_connection_id and validate_id_format
VARIABLES
    fmt_input,            \* the string given to both, as its sequence of characters
    fmt_called,           \* both have been called on it
    fmt_parsed,           \* what parse_connection_id returned for it
    fmt_valid             \* what validate_id_format returned for it

fmtVars == <<fmt_input, fmt_called, fmt_parsed, fmt_valid>>
discTaskVars == <<disc_listener, disc_announcers_checking, disc_announcers_ticking,
                  disc_announce_stopped>>
discVars == <<disc_is_running, discovered_devices, disc_starts, disc_goodbyes, disc_last,
              disc_now, disc_next_cleanup, device_updates, device_updates_last, disc_step,
              discTaskVars>>
streamVars == <<is_streaming, start_time, stream_loops, stream_last>>
connVars == <<conn_config, current_connection_id, p2p_manager, relay_client,
              connection_status, relay_enabled_copy, relay_is_connected,
              relay_is_registered, relay_connection_id, relay_readers,
              relay_orphan_readers, relay_events, p2p_is_host, p2p_has_id, conn_result,
              status_age>>
\* streaming/frame_buffer.rs: one FrameBuffer
VARIABLES
    fb_buffer,            \* buffer: the frames from front to back, each with its
                          \* frame_id, size_bytes and timestamp
    fb_max_size,          \* max_size, fixed by new()
    fb_frame_counter,     \* frame_counter
    fb_total_bytes,       \* total_bytes
    fb_now,               \* Instant::now()
    fb_pending            \* per thread: the frame its add_frame has numbered and not
                          \* pushed yet (<<>> when it is not inside add_frame)

fbVars == <<fb_buffer, fb_max_size, fb_frame_counter, fb_total_bytes, fb_now, fb_pending>>
\* streaming/mod.rs: the streaming loops and the quality setting
VARIABLES
    stream_iterating,     \* loops that passed the `while *is_streaming` test and have not
                          \* finished the iteration
    stream_frames,        \* frames pushed into the frame buffer (each followed by its
                          \* FrameReady event)
    stream_quality,       \* config.quality
    stream_quality_result \* history: the latest adjust_quality call and what it returned

loopVars == <<stream_iterating, stream_frames, stream_quality, stream_quality_result>>
\* streaming/compression.rs and streaming/screen_streamer.rs: one captured
\* frame through the encoder and the decoder
VARIABLES
    codec_pc,             \* "captured", "encoded" or "decoded"
    codec_captures,       \* frames captured after the first
    codec_image,          \* the captured image
    codec_last_frame,     \* ScreenStreamer.last_frame: <<>> or <<image>>
    codec_enable_delta,   \* config.enable_delta_compression
    codec_previous,       \* history: the previous frame handed to the encoder, <<>> if none
    codec_frame,          \* the encoded frame
    codec_base,           \* the decoder's base frame before the encoded frame is applied
    codec_decoded,        \* the decoder's base frame after it
    codec_decode_ok       \* apply_delta_frame returned Ok

codecVars == <<codec_pc, codec_captures, codec_image, codec_last_frame, codec_enable_delta, codec_previous,
               codec_frame, codec_base, codec_decoded, codec_decode_ok>>
\* network/connection_manager.rs: the locks of one ConnectionManager
VARIABLES
    lk_pc,              \* where each call on the manager stands
    lk_initialized,     \* initialize has stored the id, the P2PManager and the RelayClient
    lk_status,          \* connection_status
    lk_status_readers,  \* calls that hold a read guard on connection_status
    lk_relay_writer,    \* the call that holds the write guard on relay_client
    lk_relay_readers,   \* calls that hold a read guard on relay_client
    lk_event_task,      \* the relay event task of start_hosting has been spawned
    lk_events           \* RegistrationSuccess events the event task has to handle
lockVars == <<lk_pc, lk_initialized, lk_status, lk_status_readers, lk_relay_writer,
              lk_relay_readers, lk_event_task, lk_events>>

\* input/enhanced_input.rs: the keyboard of one EnhancedInputManager
VARIABLES
    enigo_held,      \* keys enigo has pressed and not released
    pressed_keys,    \* keyboard_state.pressed_keys
    kb_result        \* the last handle_keyboard_event call: its event's type and key, its outcome
kbVars == <<enigo_held, pressed_keys, kb_result>>

\* utils/file_transfer.rs: one transfer between a sending and a receiving manager
VARIABLES
    ft_source,       \* the bytes of the file send_file was called on
    ft_config,       \* the sender's TransferConfig: chunk_size, enable_compression
    ft_upload,       \* the sender's TransferSession
    ft_download,     \* the receiver's TransferSession
    ft_dest,         \* the bytes of the file at the receiver's file_path
    ft_chunks,       \* FileChunks send_chunk has returned and receive_chunk has not had
    ft_sent,         \* chunk indices send_chunk has returned a chunk for
    ft_last_write    \* the last write of receive_chunk: chunk index and offset
ftVars == <<ft_source, ft_config, ft_upload, ft_download, ft_dest, ft_chunks, ft_sent,
            ft_last_write>>

vars == <<permVars, inputVars, connVars, arbVars, discVars, streamVars, cmdVars, idVars,
          hostVars, fmtVars,
    fbVars, loopVars, codecVars, lockVars, kbVars, ftVars>>

\* what the handlers of one component leave alone
notPerm == <<inputVars, connVars, arbVars, discVars, streamVars, cmdVars, idVars,
    hostVars, fmtVars,
    fbVars, loopVars, codecVars, lockVars, kbVars, ftVars>>
notInput == <<permVars, connVars, arbVars, discVars, streamVars, cmdVars, idVars,
    hostVars, fmtVars,
    fbVars, loopVars, codecVars, lockVars, kbVars, ftVars>>
notConn == <<permVars, inputVars, arbVars, discVars, streamVars, cmdVars, idVars,
    hostVars, fmtVars,
    fbVars, loopVars, codecVars, lockVars, kbVars, ftVars>>
notArb == <<permVars, inputVars, connVars, discVars, streamVars, cmdVars, idVars,
    hostVars, fmtVars,
    fbVars, loopVars, codecVars, lockVars, kbVars, ftVars>>
notDisc == <<permVars, inputVars, connVars, arbVars, streamVars, cmdVars, idVars,
    hostVars, fmtVars,
    fbVars, loopVars, codecVars, lockVars, kbVars, ftVars>>
notStream == <<permVars, inputVars, connVars, arbVars, discVars, cmdVars, idVars,
    hostVars, fmtVars,
    fbVars, loopVars, codecVars, lockVars, kbVars, ftVars>>
notCmd == <<permVars, inputVars, connVars, arbVars, discVars, streamVars, idVars,
    hostVars, fmtVars,
    fbVars, loopVars, codecVars, lockVars, kbVars, ftVars>>
notId == <<permVars, inputVars, connVars, arbVars, discVars, streamVars, cmdVars,
    hostVars, fmtVars,
    fbVars, loopVars, codecVars, lockVars, kbVars, ftVars>>
notHost == <<permVars, inputVars, connVars, arbVars, discVars, streamVars, cmdVars,
    idVars, fmtVars,
    fbVars, loopVars, codecVars, lockVars, kbVars, ftVars>>
notFmt == <<permVars, inputVars, connVars, arbVars, discVars, streamVars, cmdVars,
    idVars, hostVars,
    fbVars, loopVars, codecVars, lockVars, kbVars, ftVars>>
notFb == <<permVars, inputVars, connVars, arbVars, discVars, streamVars, cmdVars,
    idVars, hostVars, fmtVars, loopVars, codecVars, lockVars, kbVars, ftVars>>
notLoop == <<permVars, inputVars, connVars, arbVars, discVars, streamVars, cmdVars,
    idVars, hostVars, fmtVars, fbVars, codecVars, lockVars, kbVars, ftVars>>
notCodec == <<permVars, inputVars, connVars, arbVars, discVars, streamVars, cmdVars,
    idVars, hostVars, fmtVars, fbVars, loopVars, lockVars, kbVars, ftVars>>
notLock == <<permVars, inputVars, connVars, arbVars, discVars, streamVars, cmdVars,
    idVars, hostVars, fmtVars, fbVars, loopVars, codecVars, kbVars, ftVars>>
notKb == <<permVars, inputVars, connVars, arbVars, discVars, streamVars, cmdVars,
    idVars, hostVars, fmtVars, fbVars, loopVars, codecVars, lockVars, ftVars>>
notFt == <<permVars, inputVars, connVars, arbVars, discVars, streamVars, cmdVars,
    idVars, hostVars, fmtVars, fbVars, loopVars, codecVars, lockVars, kbVars>>

(***************************************************************************)
(* PermissionManager                                                       *)
(***************************************************************************)
\* the events a handler sends: nothing while event_sender is None
Send(evs) == IF event_sender THEN evs ELSE <<>>

\* grant.expires_at = duration_minutes.map(|mins| Utc::now() + Duration::minutes(mins))
ExpiresAt(duration_minutes) ==
    IF duration_minutes = None THEN None ELSE now + duration_minutes

\* if let Some(expires_at) = grant.expires_at { now > expires_at }
GrantExpired(grant, t) == grant.expires_at # None /\ t > grant.expires_at

\* check_permission with the expiry test left out
check_permission_no_expiry(connection_id, permission) ==
    /\ connection_id \in DOMAIN active_grants
    /\ permission \in active_grants[connection_id].permissions

\* PermissionManager::check_permission
check_permission(connection_id, permission) ==
    IF connection_id \in DOMAIN active_grants
    THEN IF GrantExpired(active_grants[connection_id], now)
         THEN FALSE
         ELSE permission \in active_grants[connection_id].permissions
    ELSE FALSE

\* active_grants.insert(connection_id, grant): a second grant replaces the first.
\* Of PermissionGrant the fields the handlers read are kept (granted_at and
\* device_info are only ever written).
grant_permission_internal(grants, connection_id, permissions, duration_minutes) ==
    [c \in DOMAIN grants \cup {connection_id} |->
        IF c = connection_id
        THEN [permissions |-> permissions, expires_at |-> ExpiresAt(duration_minutes)]
        ELSE grants[c]]

GrantHistory(connection_id, permissions, duration_minutes) ==
    [last_grant EXCEPT ![connection_id] =
        <<[caps |-> permissions,
           until |-> IF duration_minutes = None THEN None ELSE now + duration_minutes,
           revoked |-> FALSE]>>]

is_whitelisted(connection_id) ==
    /\ config.enable_whitelist
    /\ \E device \in config.whitelisted_devices :
          device = connection_id \/ device = DeviceName(connection_id)

Remove(f, k) == [x \in DOMAIN f \ {k} |-> f[x]]

\* called once per manager: sets the sender and spawns the cleanup task, whose
\* interval ticks first at once
initialize ==
    /\ ~event_sender
    /\ event_sender' = TRUE
    /\ next_cleanup' = now
    /\ emitted' = <<>>
    /\ perm_result' = "Ok"
    /\ UNCHANGED <<now, config, pending_requests, active_grants, next_request_id,
                   last_grant, notPerm>>

update_config(new_config) ==
    /\ config' = new_config
    /\ emitted' = <<>>
    /\ perm_result' = "Ok"
    /\ UNCHANGED <<now, pending_requests, active_grants, event_sender, next_cleanup,
                   next_request_id, last_grant, notPerm>>

request_permission(connection_id, requested_permissions) ==
    /\ IF is_whitelisted(connection_id)
       THEN /\ active_grants' = grant_permission_internal(active_grants, connection_id,
                                   requested_permissions,
                                   config.default_session_duration_minutes)
            /\ last_grant' = GrantHistory(connection_id, requested_permissions,
                                          config.default_session_duration_minutes)
            /\ emitted' = <<>>
            /\ perm_result' = "Ok"
            /\ UNCHANGED <<pending_requests, next_request_id>>
       ELSE IF Cardinality(DOMAIN active_grants) >= config.max_concurrent_connections
       THEN \* Err("Maximum concurrent connections exceeded")
            /\ perm_result' = "Err"
            /\ emitted' = <<>>
            /\ UNCHANGED <<pending_requests, active_grants, next_request_id, last_grant>>
       ELSE LET id == next_request_id + 1
                \* of PermissionRequest, the fields respond_to_request and the
                \* cleanup task read
                request == [connection_id |-> connection_id,
                            expires_at |-> now + RequestExpiryMinutes]
            IN /\ next_request_id < MaxRequests
               /\ next_request_id' = id
               /\ pending_requests' =
                     [r \in DOMAIN pending_requests \cup {id} |->
                         IF r = id THEN request ELSE pending_requests[r]]
               /\ emitted' = Send(<<[type |-> "RequestReceived", request_id |-> id]>>)
               /\ perm_result' = "Ok"
               /\ UNCHANGED <<active_grants, last_grant>>
    /\ UNCHANGED <<now, config, event_sender, next_cleanup, notPerm>>

respond_to_request(request_id, response) ==
    /\ IF request_id \notin DOMAIN pending_requests
       THEN \* Err("Permission request not found")
            /\ perm_result' = "Err"
            /\ emitted' = <<>>
            /\ UNCHANGED <<pending_requests, active_grants, last_grant>>
       ELSE LET request == pending_requests[request_id]
            IN /\ pending_requests' = Remove(pending_requests, request_id)
               /\ perm_result' = "Ok"
               /\ IF now > request.expires_at
                  THEN /\ emitted' = Send(<<[type |-> "RequestResponded",
                                             request_id |-> request_id,
                                             response |-> [type |-> "Expired"]]>>)
                       /\ UNCHANGED <<active_grants, last_grant>>
                  ELSE /\ emitted' = Send(<<[type |-> "RequestResponded",
                                             request_id |-> request_id,
                                             response |-> response]>>)
                       /\ IF response.type = "Granted"
                          THEN /\ active_grants' = grant_permission_internal(active_grants,
                                      request.connection_id, response.permissions,
                                      response.duration_minutes)
                               /\ last_grant' = GrantHistory(request.connection_id,
                                      response.permissions, response.duration_minutes)
                          ELSE UNCHANGED <<active_grants, last_grant>>
    /\ UNCHANGED <<now, config, event_sender, next_cleanup, next_request_id, notPerm>>

\* grant.permissions.retain(|p| !permissions.contains(p)); an empty grant is removed
RevokeSome(grants, connection_id, permissions) ==
    LET left == grants[connection_id].permissions \ permissions
    IN IF left = {} THEN Remove(grants, connection_id)
       ELSE [grants EXCEPT ![connection_id].permissions = left]

\* permissions: Option<Vec<Permission>>, <<>> for None and <<caps>> for Some(caps)
revoke_permissions(connection_id, permissions) ==
    /\ perm_result' = "Ok"
    /\ IF connection_id \in DOMAIN active_grants
       THEN /\ IF permissions # <<>>
               THEN /\ active_grants' = RevokeSome(active_grants, connection_id, permissions[1])
                    /\ emitted' = Send(<<[type |-> "PermissionRevoked",
                                          connection_id |-> connection_id,
                                          permissions |-> permissions[1]]>>)
               ELSE /\ active_grants' = Remove(active_grants, connection_id)
                    /\ emitted' = Send(<<[type |-> "PermissionRevoked",
                                          connection_id |-> connection_id,
                                          permissions |-> active_grants[connection_id].permissions]>>)
            /\ last_grant' = [last_grant EXCEPT ![connection_id] =
                   IF connection_id \in DOMAIN active_grants' /\ last_grant[connection_id] # <<>>
                   THEN <<[last_grant[connection_id][1] EXCEPT !.revoked = TRUE]>>
                   ELSE <<>>]
       ELSE /\ emitted' = <<>>
            /\ UNCHANGED <<active_grants, last_grant>>
    /\ UNCHANGED <<now, config, pending_requests, event_sender, next_cleanup,
                   next_request_id, notPerm>>

\* the connections whose grants one pass of the cleanup task removes
ExpiredConnections(grants, t) == {c \in DOMAIN grants : GrantExpired(grants[c], t)}

\* one PermissionExpired per removed grant, in the map's iteration order
RECURSIVE ExpiredEvents(_)
ExpiredEvents(cs) ==
    IF cs = {} THEN <<>>
    ELSE LET c == CHOOSE x \in cs : TRUE
         IN <<[type |-> "PermissionExpired", connection_id |-> c]>> \o ExpiredEvents(cs \ {c})

\* one iteration of the loop spawned by start_cleanup_task
cleanup_task ==
    /\ next_cleanup # None
    /\ now >= next_cleanup
    /\ next_cleanup' = next_cleanup + CleanupIntervalMinutes
    /\ pending_requests' =
          [r \in {x \in DOMAIN pending_requests : ~(now > pending_requests[x].expires_at)} |->
              pending_requests[r]]
    /\ LET expired_connections == ExpiredConnections(active_grants, now)
       IN /\ active_grants' = [c \in DOMAIN active_grants \ expired_connections |->
                                  active_grants[c]]
          /\ emitted' = Send(ExpiredEvents(expired_connections))
    /\ perm_result' = "Ok"
    /\ UNCHANGED <<now, config, event_sender, next_request_id, last_grant,
                   notPerm>>

\* the clock advances; a due tick of the cleanup interval fires first
Tick ==
    /\ now < MaxTime
    /\ next_cleanup # None => now < next_cleanup
    /\ now' = now + 1
    /\ UNCHANGED <<config, pending_requests, active_grants, event_sender, next_cleanup,
                   next_request_id, emitted, perm_result, last_grant, notPerm>>

(***************************************************************************)
(* input/enhanced_input.rs                                                 *)
(***************************************************************************)
\* InputConfig values update_config is called with (enable_mouse, enable_keyboard)
InputConfigs == [enable_mouse : BOOLEAN, enable_keyboard : BOOLEAN]

\* the event is handed to enigo unless the device class is disabled
MouseApplied(connection_id) == input_config.enable_mouse
KeyboardApplied(connection_id) == input_config.enable_keyboard

\* connection_id is the connection the event arrived on
handle_mouse_event(connection_id) ==
    /\ last_input' = [kind |-> "mouse", connection_id |-> connection_id,
                      applied |-> MouseApplied(connection_id)]
    /\ UNCHANGED <<notInput, input_config>>

handle_keyboard_event(connection_id) ==
    /\ last_input' = [kind |-> "keyboard", connection_id |-> connection_id,
                      applied |-> KeyboardApplied(connection_id)]
    /\ UNCHANGED <<notInput, input_config>>

input_update_config(new_config) ==
    /\ input_config' = new_config
    /\ UNCHANGED <<notInput, last_input>>

KeyModifier == {"Ctrl", "Alt", "Shift", "Meta", "Super"}

KeyboardEventType == {"KeyDown", "KeyUp", "KeyPress", "TextInput"}

\* key names an event carries, as sequences of characters: a letter, a named
\* key, and a name convert_key has no arm for
KeyNames == {<<"a">>, <<"s", "h", "i", "f", "t">>, <<"f", "n">>}

\* sequences of modifiers without repetition, up to MaxModifiers long
ModifierLists ==
    {ms \in UNION {[1..n -> KeyModifier] : n \in 0..MaxModifiers} :
        \A i, j \in DOMAIN ms : i # j => ms[i] # ms[j]}

\* key and text are Options: <<>> stands for None
KeyboardEvent ==
    [event_type : KeyboardEventType \ {"TextInput"}, key : KeyNames \cup {<<>>},
     text : {<<>>}, modifiers : ModifierLists]
    \cup [event_type : {"TextInput"}, key : {<<>>},
          text : {<<>>, <<"a">>}, modifiers : ModifierLists]

\* the enigo key of a modifier
modifier_key(modifier) ==
    CASE modifier = "Ctrl" -> "Control"
      [] modifier = "Alt" -> "Alt"
      [] modifier = "Shift" -> "Shift"
      [] modifier \in {"Meta", "Super"} -> "Meta"

\* the enigo key of a key name, or "Unknown key" when no arm matches
convert_key(key_str) ==
    CASE key_str = <<"s", "h", "i", "f", "t">> -> "Shift"
      [] OTHER -> IF Len(key_str) = 1 THEN key_str[1] ELSE "Unknown key"

\* enigo's held keys after apply_modifiers has pressed every modifier in turn
apply_modifiers(held, modifiers) ==
    held \cup {modifier_key(modifiers[i]) : i \in DOMAIN modifiers}

enhanced_handle_keyboard_event(event) ==
    LET applied == apply_modifiers(enigo_held, event.modifiers)
        known == event.key # <<>> /\ convert_key(event.key) # "Unknown key"
        unknown == event.key # <<>> /\ convert_key(event.key) = "Unknown key"
        keyed == event.event_type \in {"KeyDown", "KeyUp", "KeyPress"}
    IN  /\ kb_result' = [called |-> TRUE, event_type |-> event.event_type,
                         key |-> event.key,
                         ok |-> ~(input_config.enable_keyboard /\ keyed /\ unknown)]
        /\ IF ~input_config.enable_keyboard
             THEN UNCHANGED <<enigo_held, pressed_keys>>
             ELSE CASE event.event_type = "KeyDown" /\ known ->
                         /\ enigo_held' = applied \cup {convert_key(event.key)}
                         /\ pressed_keys' = pressed_keys \cup {event.key}
                    [] event.event_type = "KeyUp" /\ known ->
                         /\ enigo_held' = applied \ {convert_key(event.key)}
                         /\ pressed_keys' = pressed_keys \ {event.key}
                    [] event.event_type = "KeyPress" /\ known ->
                         /\ enigo_held' = applied \ {convert_key(event.key)}
                         /\ UNCHANGED pressed_keys
                    [] OTHER ->
                         /\ enigo_held' = applied
                         /\ UNCHANGED pressed_keys
        /\ UNCHANGED <<notKb>>

(***************************************************************************)
(* network/connection_manager.rs, with relay_client.rs and p2p.rs          *)
(***************************************************************************)
\* values rng.gen_range(1_000_000..10_000_000) is drawn from: both ends of the range
\* the ends of gen_range(1_000_000..=10_000_000)
IdSpaceInclusive == {1000000, 9999999, 10000000}

IdSpace == {1000000, 9999999}

\* u32::to_string, as the sequence of decimal digits
RECURSIVE to_string(_)
to_string(n) == IF n < 10 THEN <<n>> ELSE Append(to_string(n \div 10), n % 10)

\* IdGenerator::generate_connection_id on a generator with no id in use
generate_connection_id(numeric_id) ==
    [numeric_id |-> numeric_id, formatted_id |-> to_string(numeric_id)]

\* ConnectionConfig::default(); relay_config_enabled is relay_config.enabled
DefaultConnectionConfig ==
    [p2p_enabled |-> TRUE, relay_enabled |-> TRUE, auto_fallback_to_relay |-> TRUE,
     relay_config_enabled |-> TRUE]

\* configurations update_connection_config builds (relay_config.enabled = relay_enabled)
ConnConfigChoices ==
    {[p2p_enabled |-> p, relay_enabled |-> r, auto_fallback_to_relay |-> a,
      relay_config_enabled |-> r] : p \in BOOLEAN, r \in BOOLEAN, a \in BOOLEAN}

Disconnected == [tag |-> "Disconnected", info |-> ""]
Connecting == [tag |-> "Connecting", info |-> ""]
Connected(connection_type) == [tag |-> "Connected", info |-> connection_type]
Failed(reason) == [tag |-> "Failed", info |-> reason]

\* how far a bring-up call got on each transport, and what it returned
CallResult(op, ok, p2p, relay, err) ==
    [op |-> op, ok |-> ok, p2p |-> p2p, relay |-> relay, err |-> err]

\* ConnectionConfig::default().connection_timeout_seconds; update_connection_config
\* and the other builders of a ConnectionConfig keep it at 30 or 10. No handler
\* of ConnectionManager, P2PManager or RelayClient reads the field.
connection_timeout_seconds == 30

\* ConnectionManager::get_connection_id
get_connection_id ==
    IF current_connection_id = <<>> THEN <<>>
    ELSE <<current_connection_id[1].formatted_id>>

\* called once per manager: mints the id and builds the transports the
\* configuration enables
cm_initialize(numeric_id) ==
    /\ current_connection_id = <<>>
    /\ current_connection_id' = <<generate_connection_id(numeric_id)>>
    /\ p2p_manager' = conn_config.p2p_enabled
    /\ relay_client' = conn_config.relay_enabled
    /\ relay_enabled_copy' = conn_config.relay_config_enabled
    /\ conn_result' = CallResult("initialize", TRUE, "none", "none", "")
    /\ UNCHANGED <<conn_config, connection_status, relay_is_connected, relay_is_registered,
                   relay_connection_id, relay_readers, relay_orphan_readers, relay_events,
                   p2p_is_host, p2p_has_id, status_age, notConn>>

cm_update_config(new_config) ==
    /\ conn_config' = new_config
    /\ conn_result' = CallResult("update_config", TRUE, "none", "none", "")
    /\ UNCHANGED <<current_connection_id, p2p_manager, relay_client, connection_status,
                   relay_enabled_copy, relay_is_connected, relay_is_registered,
                   relay_connection_id, relay_readers, relay_orphan_readers, relay_events,
                   p2p_is_host, p2p_has_id, status_age, notConn>>

\* the status start_hosting leaves when the relay path was taken: it is set to
\* Connected(Relay) only later, by the relay event task on RegistrationSuccess
start_hosting_relay_status == Connecting

\* the status a bring-up call leaves when `?` returns a relay error early
relay_error_status(reason) == Connecting

\* start_hosting. p2p_bind_ok: TcpListener::bind succeeds; relay_reachable:
\* connect_async to the relay server succeeds.
start_hosting(p2p_bind_ok, relay_reachable) ==
    LET has_id == current_connection_id # <<>>
        try_p2p == has_id /\ conn_config.p2p_enabled /\ p2p_manager
        p2p_ok == try_p2p /\ p2p_bind_ok
        p2p_terminal == try_p2p /\ ~p2p_bind_ok /\ ~conn_config.auto_fallback_to_relay
        try_relay == has_id /\ ~p2p_ok /\ ~p2p_terminal
                        /\ conn_config.relay_enabled /\ relay_client
        relay_ok == try_relay /\ relay_enabled_copy /\ relay_reachable
        relay_err == IF relay_enabled_copy THEN "Relay connect failed"
                     ELSE "Relay client is disabled"
        p2p == IF ~try_p2p THEN "none" ELSE IF p2p_ok THEN "ok" ELSE "failed"
        relay == IF ~try_relay THEN "none" ELSE IF relay_ok THEN "ok" ELSE "failed"
    IN \* P2PManager::start_host sets is_host and its id before it binds
       /\ p2p_is_host' = (p2p_is_host \/ try_p2p)
       /\ p2p_has_id' = (p2p_has_id \/ try_p2p)
       /\ IF relay_ok
          THEN \* RelayClient::connect, then register (which sends nothing), then
               \* the relay event task is spawned on the new channel
               /\ relay_readers + relay_orphan_readers < MaxReaders
               /\ relay_is_connected' = TRUE
               /\ relay_connection_id' = <<current_connection_id[1].formatted_id>>
               /\ relay_readers' = relay_readers + 1
          ELSE UNCHANGED <<relay_is_connected, relay_connection_id, relay_readers>>
       /\ connection_status' =
             IF ~has_id THEN Connecting
             ELSE IF p2p_ok THEN Connected("P2P")
             ELSE IF p2p_terminal THEN Connecting
             ELSE IF try_relay /\ ~relay_ok THEN relay_error_status(relay_err)
             ELSE IF relay_ok THEN start_hosting_relay_status
             ELSE Failed("Failed to establish any connection (P2P and Relay)")
       /\ conn_result' =
             IF ~has_id THEN CallResult("start_hosting", FALSE, p2p, relay,
                                        "No connection ID generated")
             ELSE IF p2p_ok THEN CallResult("start_hosting", TRUE, p2p, relay, "")
             ELSE IF p2p_terminal THEN CallResult("start_hosting", FALSE, p2p, relay,
                                                  "P2P bind failed")
             ELSE IF try_relay /\ ~relay_ok
                  THEN CallResult("start_hosting", FALSE, p2p, relay, relay_err)
             ELSE IF relay_ok THEN CallResult("start_hosting", TRUE, p2p, relay, "")
             ELSE CallResult("start_hosting", FALSE, p2p, relay,
                             "Failed to establish any connection (P2P and Relay)")
       /\ status_age' = 0
       /\ UNCHANGED <<conn_config, current_connection_id, p2p_manager, relay_client,
                      relay_enabled_copy, relay_is_registered, relay_orphan_readers,
                      relay_events, notConn>>

\* connect_to_host. p2p_connected: P2PManager::connect_to_peer returns Connected
\* (it returns Failed otherwise); relay_reachable as in start_hosting.
connect_to_host(p2p_connected, relay_reachable) ==
    LET try_p2p == conn_config.p2p_enabled /\ p2p_manager
        p2p_ok == try_p2p /\ p2p_connected
        p2p_terminal == try_p2p /\ ~p2p_connected /\ ~conn_config.auto_fallback_to_relay
        try_relay == ~p2p_ok /\ ~p2p_terminal /\ conn_config.relay_enabled /\ relay_client
        \* if !relay_client.is_connected(): connect()?, then the id, then register()?
        must_connect == try_relay /\ ~relay_is_connected
        connect_ok == must_connect /\ relay_enabled_copy /\ relay_reachable
        has_id == current_connection_id # <<>>
        relay_err == IF must_connect /\ ~relay_enabled_copy THEN "Relay client is disabled"
                     ELSE IF must_connect /\ ~connect_ok THEN "Relay connect failed"
                     ELSE IF must_connect /\ ~has_id THEN "No connection ID generated"
                     ELSE IF ~relay_is_registered THEN "Not registered with relay server"
                     ELSE ""
        relay_ok == try_relay /\ relay_err = ""
        p2p == IF ~try_p2p THEN "none" ELSE IF p2p_ok THEN "ok" ELSE "failed"
        relay == IF ~try_relay THEN "none" ELSE IF relay_ok THEN "ok" ELSE "failed"
    IN /\ IF connect_ok
          THEN \* the receiver returned by connect() is dropped at the end of the block
               /\ relay_readers + relay_orphan_readers < MaxReaders
               /\ relay_is_connected' = TRUE
               /\ relay_orphan_readers' = relay_orphan_readers + 1
               /\ relay_connection_id' =
                     IF has_id THEN <<current_connection_id[1].formatted_id>>
                     ELSE relay_connection_id
          ELSE UNCHANGED <<relay_is_connected, relay_orphan_readers, relay_connection_id>>
       /\ connection_status' =
             IF p2p_ok THEN Connected("P2P")
             ELSE IF p2p_terminal THEN Connecting
             ELSE IF try_relay /\ ~relay_ok THEN relay_error_status(relay_err)
             ELSE IF relay_ok THEN Connected("Relay")
             ELSE Failed("Failed to establish connection via P2P or Relay")
       /\ conn_result' =
             IF p2p_ok THEN CallResult("connect_to_host", TRUE, p2p, relay, "")
             ELSE IF p2p_terminal THEN CallResult("connect_to_host", FALSE, p2p, relay,
                                                  "P2P connection failed")
             ELSE IF try_relay /\ ~relay_ok
                  THEN CallResult("connect_to_host", FALSE, p2p, relay, relay_err)
             ELSE IF relay_ok THEN CallResult("connect_to_host", TRUE, p2p, relay, "")
             ELSE CallResult("connect_to_host", FALSE, p2p, relay,
                             "Failed to establish connection via P2P or Relay")
       /\ status_age' = 0
       /\ UNCHANGED <<conn_config, current_connection_id, p2p_manager, relay_client,
                      relay_enabled_copy, relay_is_registered, relay_readers,
                      relay_events, p2p_is_host, p2p_has_id, notConn>>

\* ConnectionManager::disconnect: P2PManager::disconnect, RelayClient::disconnect
\* (which returns early when not connected), then status Disconnected. The
\* reader tasks are not stopped.
disconnect ==
    /\ IF p2p_manager
       THEN p2p_is_host' = FALSE /\ p2p_has_id' = FALSE
       ELSE UNCHANGED <<p2p_is_host, p2p_has_id>>
    /\ IF relay_client /\ relay_is_connected
       THEN /\ relay_is_connected' = FALSE
            /\ relay_is_registered' = FALSE
            /\ relay_connection_id' = <<>>
       ELSE UNCHANGED <<relay_is_connected, relay_is_registered, relay_connection_id>>
    /\ connection_status' = Disconnected
    /\ conn_result' = CallResult("disconnect", TRUE, "none", "none", "")
    /\ status_age' = 0
    /\ UNCHANGED <<conn_config, current_connection_id, p2p_manager, relay_client,
                   relay_enabled_copy, relay_readers, relay_orphan_readers, relay_events,
                   notConn>>

\* dispatch on relay_client.is_connected() instead of the status
send_transport_by_flag ==
    IF relay_client /\ relay_is_connected THEN "Relay"
    ELSE IF connection_status = Connected("P2P") THEN "P2P"
    ELSE "none"

\* match status.clone() of send_screen_frame and send_input_event: the arm taken
send_transport ==
    IF connection_status = Connected("P2P") THEN "P2P"
    ELSE IF connection_status = Connected("Relay") THEN "Relay"
    ELSE "none"

\* what a send returns. P2P arm: only a debug line. Relay arm:
\* RelayClient::send_screen_frame / send_input_event, which fail when not
\* registered and otherwise build the message and send nothing (TODO).
\* The p2p and relay fields say which transport the call was handed to.
SendResult(op, no_connection) ==
    IF send_transport = "P2P"
    THEN CallResult(op, TRUE, IF p2p_manager THEN "ok" ELSE "none", "none", "")
    ELSE IF send_transport = "Relay"
    THEN IF relay_client /\ ~relay_is_registered
         THEN CallResult(op, FALSE, "none", "failed", "Not registered with relay server")
         ELSE CallResult(op, TRUE, "none", IF relay_client THEN "ok" ELSE "none", "")
    ELSE CallResult(op, FALSE, "none", "none", no_connection)

send_screen_frame ==
    /\ conn_result' = SendResult("send_screen_frame",
                                 "No active connection to send screen frame")
    /\ UNCHANGED <<conn_config, current_connection_id, p2p_manager, relay_client,
                   connection_status, relay_enabled_copy, relay_is_connected,
                   relay_is_registered, relay_connection_id, relay_readers,
                   relay_orphan_readers, relay_events, p2p_is_host, p2p_has_id,
                   status_age, notConn>>

send_input_event ==
    /\ conn_result' = SendResult("send_input_event",
                                 "No active connection to send input event")
    /\ UNCHANGED <<conn_config, current_connection_id, p2p_manager, relay_client,
                   connection_status, relay_enabled_copy, relay_is_connected,
                   relay_is_registered, relay_connection_id, relay_readers,
                   relay_orphan_readers, relay_events, p2p_is_host, p2p_has_id,
                   status_age, notConn>>

\* a second passes in which no ConnectionManager handler or task runs: the
\* manager owns no timer
ConnTick ==
    /\ status_age < MaxStatusAge
    /\ status_age' = status_age + 1
    /\ UNCHANGED <<conn_config, current_connection_id, p2p_manager, relay_client,
                   connection_status, relay_enabled_copy, relay_is_connected,
                   relay_is_registered, relay_connection_id, relay_readers,
                   relay_orphan_readers, relay_events, p2p_is_host, p2p_has_id,
                   conn_result, notConn>>

\* messages of the relay server a reader task acts on
RelayServerMessages ==
    {"RegisterResponseOk", "RegisterResponseOkNoId", "ConnectRequest", "Close", "Error"}

\* the event a reader task sends for a message (RegistrationFailed, Connected,
\* Disconnected and MessageReceived are only logged by the event task)
EventFor(msg) ==
    IF msg = "RegisterResponseOk" THEN <<"RegistrationSuccess">>
    ELSE IF msg = "ConnectRequest" THEN <<"ConnectionRequest">>
    ELSE IF msg = "Error" THEN <<"Error">>
    ELSE <<>>

\* one iteration of a reader task spawned by RelayClient::connect; drained says
\* whether a relay event task reads the channel the reader sends on
relay_reader(drained, msg) ==
    /\ IF drained THEN relay_readers > 0 ELSE relay_orphan_readers > 0
    /\ relay_is_registered' =
          IF msg \in {"RegisterResponseOk", "RegisterResponseOkNoId"} THEN TRUE
          ELSE IF msg = "Close" THEN FALSE
          ELSE relay_is_registered
    /\ relay_is_connected' = IF msg \in {"Close", "Error"} THEN FALSE ELSE relay_is_connected
    /\ IF drained /\ EventFor(msg) # <<>>
       THEN /\ Len(relay_events) < MaxQueue
            /\ relay_events' = relay_events \o EventFor(msg)
       ELSE UNCHANGED relay_events
    /\ IF msg \in {"Close", "Error"}
       THEN IF drained
            THEN relay_readers' = relay_readers - 1 /\ UNCHANGED relay_orphan_readers
            ELSE relay_orphan_readers' = relay_orphan_readers - 1 /\ UNCHANGED relay_readers
       ELSE UNCHANGED <<relay_readers, relay_orphan_readers>>
    /\ UNCHANGED <<conn_config, current_connection_id, p2p_manager, relay_client,
                   connection_status, relay_enabled_copy, relay_connection_id,
                   p2p_is_host, p2p_has_id, conn_result, status_age, notConn>>

\* one iteration of the task start_hosting spawns on the relay events
relay_event_task ==
    /\ relay_events # <<>>
    /\ relay_events' = Tail(relay_events)
    /\ connection_status' =
          IF Head(relay_events) = "RegistrationSuccess" THEN Connected("Relay")
          ELSE connection_status
    /\ status_age' = IF Head(relay_events) = "RegistrationSuccess" THEN 0 ELSE status_age
    /\ UNCHANGED <<conn_config, current_connection_id, p2p_manager, relay_client,
                   relay_enabled_copy, relay_is_connected, relay_is_registered,
                   relay_connection_id, relay_readers, relay_orphan_readers,
                   p2p_is_host, p2p_has_id, conn_result, notConn>>

(***************************************************************************)
(* network/connection_requests.rs                                          *)
(***************************************************************************)
\* request_timeout: Duration::from_secs(60)
RequestTimeoutSecs == 60
\* run_cleanup_task: tokio::time::interval(Duration::from_secs(30))
ArbCleanupIntervalSecs == 30

\* request ids: create_connection_request mints uuids, here 1..MaxCreated; a
\* discovery ConnectionRequest carries the id its sender chose
DiscoveryIds == {101}
ArbIds == (1..(MaxCreated + 1)) \cup DiscoveryIds

\* pending_requests.insert(request_id, PendingRequest { request, expires_at }):
\* an entry with the same id is replaced. Of PendingRequest, expires_at is the
\* field the handlers read.
ArbInsert(pending, request_id, t) ==
    [r \in DOMAIN pending \cup {request_id} |->
        IF r = request_id THEN [expires_at |-> t + RequestTimeoutSecs] ELSE pending[r]]

\* requests.retain(|_, pending| now < pending.expires_at)
ArbRetain(pending, t) ==
    [r \in {x \in DOMAIN pending : t < pending[x].expires_at} |-> pending[r]]

create_connection_request ==
    /\ arb_created < MaxCreated
    /\ arb_now <= MaxArrival
    /\ arb_created' = arb_created + 1
    /\ arb_pending' = ArbInsert(arb_pending, arb_created + 1, arb_now)
    /\ arb_request_updates' =
          [arb_request_updates EXCEPT ![arb_created + 1] = @ + 1]
    /\ arb_inserted_at' = [arb_inserted_at EXCEPT ![arb_created + 1] = arb_now]
    /\ arb_result' = "Ok"
    /\ UNCHANGED <<arb_now, arb_next_cleanup, arb_delivered, arb_outcomes, arb_left, notArb>>

\* the id is taken from the datagram; nothing looks at a request that was
\* already seen under that id
handle_incoming_discovery_request(request_id) ==
    /\ arb_delivered < MaxDeliveries
    /\ arb_now <= MaxArrival
    /\ arb_delivered' = arb_delivered + 1
    /\ arb_pending' = ArbInsert(arb_pending, request_id, arb_now)
    /\ arb_request_updates' = [arb_request_updates EXCEPT ![request_id] = @ + 1]
    /\ arb_inserted_at' = [arb_inserted_at EXCEPT ![request_id] = arb_now]
    /\ arb_result' = "Ok"
    /\ UNCHANGED <<arb_now, arb_next_cleanup, arb_created, arb_outcomes, arb_left, notArb>>

\* ConnectionRequestManager::respond_to_request
arb_respond_to_request(request_id, accepted) ==
    /\ IF request_id \in DOMAIN arb_pending
       THEN /\ arb_pending' = Remove(arb_pending, request_id)
            /\ arb_outcomes' = [arb_outcomes EXCEPT ![request_id] =
                                  Append(@, IF accepted THEN "Accepted" ELSE "Denied")]
            /\ arb_left' = [arb_left EXCEPT ![request_id] = @ \cup {"responded"}]
            /\ arb_result' = "Ok"
       ELSE \* Err("Request not found or expired")
            /\ arb_result' = "Err"
            /\ UNCHANGED <<arb_pending, arb_outcomes, arb_left>>
    /\ UNCHANGED <<arb_now, arb_next_cleanup, arb_created, arb_delivered,
                   arb_request_updates, arb_inserted_at, notArb>>

cancel_request(request_id) ==
    /\ IF request_id \in DOMAIN arb_pending
       THEN /\ arb_pending' = Remove(arb_pending, request_id)
            /\ arb_left' = [arb_left EXCEPT ![request_id] = @ \cup {"cancelled"}]
            /\ arb_result' = "Ok"
       ELSE \* Err("Request not found")
            /\ arb_result' = "Err"
            /\ UNCHANGED <<arb_pending, arb_left>>
    /\ UNCHANGED <<arb_now, arb_next_cleanup, arb_created, arb_delivered,
                   arb_request_updates, arb_outcomes, arb_inserted_at, notArb>>

\* the outcomes one pass of run_cleanup_task publishes for the requests it evicts
\* (it sends on no channel; the eviction is only logged)
cleanup_outcomes(outcomes, evicted) == outcomes

\* one iteration of the loop of run_cleanup_task
run_cleanup_task ==
    /\ arb_now >= arb_next_cleanup
    /\ arb_next_cleanup' = arb_next_cleanup + ArbCleanupIntervalSecs
    /\ arb_pending' = ArbRetain(arb_pending, arb_now)
    /\ arb_outcomes' = cleanup_outcomes(arb_outcomes, DOMAIN arb_pending \ DOMAIN arb_pending')
    /\ arb_left' = [r \in ArbIds |->
                      IF r \in DOMAIN arb_pending \ DOMAIN arb_pending'
                      THEN arb_left[r] \cup {"evicted"} ELSE arb_left[r]]
    /\ UNCHANGED <<arb_now, arb_created, arb_delivered, arb_request_updates,
                   arb_inserted_at, arb_result, notArb>>

\* a second passes; a due tick of the cleanup interval fires first
ArbTick ==
    /\ arb_now < MaxArbTime
    /\ arb_now < arb_next_cleanup
    /\ arb_now' = arb_now + 1
    /\ UNCHANGED <<arb_pending, arb_next_cleanup, arb_created, arb_delivered,
                   arb_request_updates, arb_outcomes, arb_inserted_at, arb_left,
                   arb_result, notArb>>

(***************************************************************************)
(* network/discovery.rs                                                    *)
(***************************************************************************)
\* device ids of the other devices on the network
PeerIds == {"p1", "p2"}

\* DeviceInfo of this host, built once by NetworkDiscovery::new
local_device_info == [device_id |-> "local", ip_address |-> "ip0"]

\* device ids and advertised addresses a datagram can carry
DeviceIds == PeerIds \cup {local_device_info.device_id}
IpAddresses == {"ip0", "ip1", "ip2"}

\* the address a device advertises when every device has its own
PeerIp(device_id) ==
    CASE device_id = "p1" -> "ip1" [] device_id = "p2" -> "ip2" [] OTHER -> "ip0"

\* MessageType
MessageTypes == {"Announce", "Response", "ConnectionRequest", "ConnectionResponse", "Goodbye"}

\* DiscoveryMessage: its type and the device_id and ip_address of its device_info
DiscoveryMessage(message_type, device_id, ip_address) ==
    [message_type |-> message_type, device_id |-> device_id, ip_address |-> ip_address]

DiscoveryMessages ==
    {DiscoveryMessage(message_type, device_id, ip_address) :
        message_type \in MessageTypes, device_id \in DeviceIds, ip_address \in IpAddresses}

\* DiscoveredDevice, stored under its device_id
DiscoveredDevice(device_id, ip_address, last_seen) ==
    [device_id |-> device_id, ip_address |-> ip_address, last_seen |-> last_seen]

\* history record of a listener or cleanup step
DiscStep(kind, from_self, replaced) ==
    [kind |-> kind, from_self |-> from_self, replaced |-> replaced]

\* a filter that compares the device id only
is_self_by_id(message) == message.device_id = local_device_info.device_id

\* run_udp_listener: a message of this host, by device id or by advertised address
is_self(message) ==
    \/ message.device_id = local_device_info.device_id
    \/ message.ip_address = local_device_info.ip_address

\* a retain that keeps every record
retain_all(devices, ip_address) == devices

\* add_discovered_device: devices.retain of the records with another address
retain_other_ip(devices, ip_address) == {d \in devices : d.ip_address # ip_address}

\* HashMap::remove of the record stored under a device id
remove_device(devices, device_id) == {d \in devices : d.device_id # device_id}

\* add_discovered_device: drops the records with the advertised address, then
\* inserts the sender under its device id with last_seen = SystemTime::now()
add_discovered_device(devices, message, seen_at) ==
    remove_device(retain_other_ip(devices, message.ip_address), message.device_id)
        \cup {DiscoveredDevice(message.device_id, message.ip_address, seen_at)}

\* NetworkDiscovery::start: nothing when already running; otherwise sets the
\* flag and spawns the listener, announcement and cleanup tasks; the interval
\* of the cleanup task ticks at once
discovery_start ==
    /\ IF disc_is_running
       THEN UNCHANGED <<disc_is_running, disc_starts, disc_next_cleanup,
                        disc_announcers_checking>>
       ELSE /\ disc_starts < MaxStarts
            /\ disc_is_running' = TRUE
            /\ disc_starts' = disc_starts + 1
            /\ disc_next_cleanup' = disc_now
            /\ disc_announcers_checking' = disc_announcers_checking + 1
    /\ disc_last' = "start"
    /\ UNCHANGED <<discovered_devices, disc_goodbyes, disc_now, device_updates,
                   device_updates_last, disc_step, disc_listener,
                   disc_announcers_ticking, disc_announce_stopped, notDisc>>

\* stop that broadcasts its Goodbye and clears the table whether or not the
\* service is running
discovery_stop_unguarded ==
    /\ disc_goodbyes <= MaxStarts
    /\ disc_is_running' = FALSE
    /\ disc_goodbyes' = disc_goodbyes + 1
    /\ discovered_devices' = {}
    /\ disc_last' = "stop"
    /\ UNCHANGED <<disc_starts, disc_now, disc_next_cleanup, device_updates,
                   device_updates_last, disc_step, discTaskVars, notDisc>>

\* NetworkDiscovery::stop: nothing when not running; otherwise clears the flag,
\* broadcasts one Goodbye (a failed broadcast is only logged) and clears the table
discovery_stop ==
    /\ IF disc_is_running
       THEN /\ disc_is_running' = FALSE
            /\ disc_goodbyes' = disc_goodbyes + 1
            /\ discovered_devices' = {}
       ELSE UNCHANGED <<disc_is_running, disc_goodbyes, discovered_devices>>
    /\ disc_last' = "stop"
    /\ UNCHANGED <<disc_starts, disc_now, disc_next_cleanup, device_updates,
                   device_updates_last, disc_step, discTaskVars, notDisc>>

\* one iteration of run_udp_listener on a datagram: a message of this host is
\* ignored; Announce (after the Response is sent back) and Response add the
\* sender to the table, Goodbye removes it, ConnectionRequest is forwarded and
\* ConnectionResponse is logged. Nothing is sent on device_updates_tx.
discovery_receive(message) ==
    /\ disc_is_running
    /\ disc_listener = <<>>
    /\ discovered_devices' =
          IF is_self(message) THEN discovered_devices
          ELSE IF message.message_type \in {"Announce", "Response"}
          THEN add_discovered_device(discovered_devices, message, disc_now)
          ELSE IF message.message_type = "Goodbye"
          THEN remove_device(discovered_devices, message.device_id)
          ELSE discovered_devices
    /\ disc_step' =
          DiscStep(message.message_type,
                   message.device_id = local_device_info.device_id
                       \/ message.ip_address = local_device_info.ip_address,
                   /\ message.message_type \in {"Announce", "Response"}
                   /\ \E d \in discovered_devices :
                         /\ d.ip_address = message.ip_address
                         /\ d.device_id # message.device_id)
    /\ UNCHANGED <<disc_is_running, disc_starts, disc_goodbyes, disc_last, disc_now,
                   disc_next_cleanup, device_updates, device_updates_last, discTaskVars, notDisc>>

\* DEVICE_TIMEOUT and the period of cleanup_interval, in seconds
DEVICE_TIMEOUT == 30
cleanup_interval == 10
\* BROADCAST_INTERVAL: the clock of the model advances by one announcement period
BROADCAST_INTERVAL == 5

\* one iteration of run_cleanup_task when its interval ticks: keeps the records
\* seen less than DEVICE_TIMEOUT ago and, when the count changed, sends the
\* remaining records on device_updates_tx
discovery_run_cleanup_task ==
    /\ disc_is_running
    /\ disc_now >= disc_next_cleanup
    /\ LET retained == {d \in discovered_devices :
                           (IF disc_now >= d.last_seen THEN disc_now - d.last_seen ELSE 0)
                               < DEVICE_TIMEOUT}
       IN /\ discovered_devices' = retained
          /\ IF Cardinality(discovered_devices) # Cardinality(retained)
             THEN /\ device_updates' = device_updates + 1
                  /\ device_updates_last' = retained
             ELSE UNCHANGED <<device_updates, device_updates_last>>
    /\ disc_next_cleanup' = disc_now + cleanup_interval
    /\ disc_step' = DiscStep("cleanup", FALSE, FALSE)
    /\ UNCHANGED <<disc_is_running, disc_starts, disc_goodbyes, disc_last, disc_now, discTaskVars, notDisc>>

\* time passes between two steps; a due cleanup runs first
discovery_tick ==
    /\ disc_now < MaxDiscTicks * BROADCAST_INTERVAL
    /\ ~(disc_is_running /\ disc_now >= disc_next_cleanup)
    /\ disc_now' = disc_now + BROADCAST_INTERVAL
    /\ UNCHANGED <<disc_is_running, discovered_devices, disc_starts, disc_goodbyes,
                   disc_last, disc_next_cleanup, device_updates, device_updates_last,
                   disc_step, discTaskVars, notDisc>>

\* run_udp_listener up to the datagram: the loop has read is_running as true
\* and recv_from has returned a message; the lock on is_running is not held
\* while the message is handled
listener_receive(message) ==
    /\ disc_is_running
    /\ disc_listener = <<>>
    /\ disc_listener' = <<message>>
    /\ UNCHANGED <<disc_is_running, discovered_devices, disc_starts, disc_goodbyes,
                   disc_last, disc_now, disc_next_cleanup, device_updates,
                   device_updates_last, disc_step, disc_announcers_checking,
                   disc_announcers_ticking, disc_announce_stopped, notDisc>>

\* run_udp_listener from the datagram on: the self filter and the match on the
\* message type, whatever is_running holds by now
listener_handle ==
    /\ disc_listener # <<>>
    /\ LET message == disc_listener[1]
       IN /\ discovered_devices' =
                IF is_self(message) THEN discovered_devices
                ELSE IF message.message_type \in {"Announce", "Response"}
                THEN add_discovered_device(discovered_devices, message, disc_now)
                ELSE IF message.message_type = "Goodbye"
                THEN remove_device(discovered_devices, message.device_id)
                ELSE discovered_devices
          /\ disc_step' = DiscStep(message.message_type, is_self(message), FALSE)
    /\ disc_listener' = <<>>
    /\ UNCHANGED <<disc_is_running, disc_starts, disc_goodbyes, disc_last, disc_now,
                   disc_next_cleanup, device_updates, device_updates_last,
                   disc_announcers_checking, disc_announcers_ticking,
                   disc_announce_stopped, notDisc>>

\* run_announcements at the head of its loop: a task that reads is_running as
\* true goes on to wait for announce_interval, one that reads false returns
announcer_check ==
    /\ disc_announcers_checking > 0
    /\ disc_announcers_checking' = disc_announcers_checking - 1
    /\ disc_announcers_ticking' =
          IF disc_is_running THEN disc_announcers_ticking + 1 ELSE disc_announcers_ticking
    /\ UNCHANGED <<disc_is_running, discovered_devices, disc_starts, disc_goodbyes,
                   disc_last, disc_now, disc_next_cleanup, device_updates,
                   device_updates_last, disc_step, disc_listener, disc_announce_stopped,
                   notDisc>>

\* run_announcements when announce_interval ticks: the Announce is broadcast
\* without another look at is_running, then the loop starts over
announcer_announce ==
    /\ disc_announcers_ticking > 0
    /\ disc_announcers_ticking' = disc_announcers_ticking - 1
    /\ disc_announcers_checking' = disc_announcers_checking + 1
    /\ disc_announce_stopped' = ~disc_is_running
    /\ UNCHANGED <<disc_is_running, discovered_devices, disc_starts, disc_goodbyes,
                   disc_last, disc_now, disc_next_cleanup, device_updates,
                   device_updates_last, disc_step, disc_listener, notDisc>>

(***************************************************************************)
(* streaming/mod.rs                                                        *)
(***************************************************************************)
\* StreamingManager::start_streaming: sets the flag and the start time and
\* spawns a streaming loop
start_streaming ==
    /\ stream_loops < MaxLoops
    /\ is_streaming' = TRUE
    /\ start_time' = TRUE
    /\ stream_loops' = stream_loops + 1
    /\ stream_last' = "start"
    /\ UNCHANGED notStream

\* StreamingManager::stop_streaming
stop_streaming ==
    /\ is_streaming' = FALSE
    /\ start_time' = FALSE
    /\ stream_last' = "stop"
    /\ UNCHANGED <<stream_loops, notStream>>

\* a streaming loop reads is_streaming as false and ends
streaming_loop_exit ==
    /\ stream_loops > stream_iterating
    /\ ~is_streaming
    /\ stream_loops' = stream_loops - 1
    /\ UNCHANGED <<is_streaming, start_time, stream_last, notStream>>

(***************************************************************************)
(* utils/id_generator.rs: generate_connection_id and release_id called     *)
(* from several threads on one generator. The read lock of the contains_key *)
(* test is dropped before the write lock of the insert is taken.           *)
(***************************************************************************)
Threads == {"t1", "t2"}

MAX_ATTEMPTS == 1000

IdResult(ok, numeric_id, attempts) ==
    [ok |-> ok, numeric_id |-> numeric_id, attempts |-> attempts]

\* a thread enters generate_connection_id: attempts = 0
generate_begin(t) ==
    /\ id_pc[t] = "idle"
    /\ id_pc' = [id_pc EXCEPT ![t] = "loop"]
    /\ id_attempts' = [id_attempts EXCEPT ![t] = 0]
    /\ UNCHANGED <<used_ids, id_drawn, id_result, outstanding, notId>>

\* one iteration of the loop below the attempts test: draw numeric_id, test it
\* under the read lock; a reserved id counts an attempt and the loop continues
generate_draw(t, numeric_id) ==
    /\ id_pc[t] = "loop"
    /\ id_attempts[t] < MAX_ATTEMPTS
    /\ IF numeric_id \in used_ids
       THEN /\ id_attempts[t] < MaxCollisions
            /\ id_attempts' = [id_attempts EXCEPT ![t] = @ + 1]
            /\ UNCHANGED <<id_pc, id_drawn>>
       ELSE /\ id_pc' = [id_pc EXCEPT ![t] = "checked"]
            /\ id_drawn' = [id_drawn EXCEPT ![t] = numeric_id]
            /\ UNCHANGED id_attempts
    /\ UNCHANGED <<used_ids, id_result, outstanding, notId>>

\* the iterations left up to MAX_ATTEMPTS, every one of them drawing a
\* reserved id
generate_draw_reserved(t) ==
    /\ id_pc[t] = "loop"
    /\ id_attempts[t] < MAX_ATTEMPTS
    /\ used_ids # {}
    /\ id_attempts' = [id_attempts EXCEPT ![t] = MAX_ATTEMPTS]
    /\ UNCHANGED <<used_ids, id_pc, id_drawn, id_result, outstanding, notId>>

\* attempts >= MAX_ATTEMPTS at the top of the loop: Err
generate_exhausted(t) ==
    /\ id_pc[t] = "loop"
    /\ id_attempts[t] >= MAX_ATTEMPTS
    /\ id_pc' = [id_pc EXCEPT ![t] = "idle"]
    /\ id_result' = [id_result EXCEPT ![t] = IdResult(FALSE, None, id_attempts[t])]
    /\ UNCHANGED <<used_ids, id_attempts, id_drawn, outstanding, notId>>

\* the write-locked insert of the id that passed the test, and the return
generate_insert(t) ==
    /\ id_pc[t] = "checked"
    /\ outstanding[id_drawn[t]] < MaxOutstanding
    /\ used_ids' = used_ids \cup {id_drawn[t]}
    /\ outstanding' = [outstanding EXCEPT ![id_drawn[t]] = @ + 1]
    /\ id_pc' = [id_pc EXCEPT ![t] = "idle"]
    /\ id_result' = [id_result EXCEPT ![t] = IdResult(TRUE, id_drawn[t], id_attempts[t])]
    /\ UNCHANGED <<id_attempts, id_drawn, notId>>

\* IdGenerator::release_id by a holder of the id
release_id(numeric_id) ==
    /\ outstanding[numeric_id] > 0
    /\ used_ids' = used_ids \ {numeric_id}
    /\ outstanding' = [outstanding EXCEPT ![numeric_id] = @ - 1]
    /\ UNCHANGED <<id_pc, id_attempts, id_drawn, id_result, notId>>

(***************************************************************************)
(* network/p2p.rs: the host session of a P2PManager                        *)
(***************************************************************************)
\* addresses of the peers that connect to the listener
HostPeers == {"10.0.0.1", "10.0.0.2"}

\* numeric_id: the id of the ConnectionId returned, None when there is none
HostResult(op, ok, numeric_id) == [op |-> op, ok |-> ok, numeric_id |-> numeric_id]

\* P2PManager::start_host. numeric_id: the id generate_connection_id draws;
\* mint_fails: its 1000 draws all hit reserved ids; bind_ok: TcpListener::bind
\* succeeds. The id is reserved and is_host and current_connection_id are set
\* before the bind, whose error returns through `?`.
start_host(numeric_id, mint_fails, bind_ok) ==
    IF mint_fails \/ host_used_ids = IdSpace
    THEN /\ host_used_ids # {}
         /\ host_result' = HostResult("start_host", FALSE, None)
         /\ UNCHANGED <<host_used_ids, host_current_connection_id, host_is_host,
                        host_acceptors, host_active_connections, notHost>>
    ELSE /\ numeric_id \notin host_used_ids
         /\ host_used_ids' = host_used_ids \cup {numeric_id}
         /\ host_is_host' = TRUE
         /\ host_current_connection_id' = <<numeric_id>>
         /\ bind_ok => host_acceptors < MaxAcceptors
         /\ host_acceptors' = IF bind_ok THEN host_acceptors + 1 ELSE host_acceptors
         /\ host_result' = HostResult("start_host", bind_ok,
                                     IF bind_ok THEN numeric_id ELSE None)
         /\ UNCHANGED <<host_active_connections, notHost>>

\* the acceptor task: handle_p2p_connection registers the new connection
host_accept(peer) ==
    /\ host_acceptors > 0
    /\ host_active_connections' = host_active_connections \cup {peer}
    /\ UNCHANGED <<host_used_ids, host_current_connection_id, host_is_host, host_acceptors,
                   host_result, notHost>>

\* P2PManager::stop_host: release_id of the current id, if there is one
stop_host ==
    /\ host_is_host' = FALSE
    /\ host_used_ids' = IF host_current_connection_id = <<>> THEN host_used_ids
                        ELSE host_used_ids \ {host_current_connection_id[1]}
    /\ host_current_connection_id' = <<>>
    /\ host_active_connections' = {}
    /\ host_result' = HostResult("stop_host", TRUE, None)
    /\ UNCHANGED <<host_acceptors, notHost>>

\* P2PManager::disconnect: clears the current id without release_id
p2p_disconnect ==
    /\ host_current_connection_id' = <<>>
    /\ host_is_host' = FALSE
    /\ host_active_connections' = {}
    /\ host_result' = HostResult("disconnect", TRUE, None)
    /\ UNCHANGED <<host_used_ids, host_acceptors, notHost>>

(***************************************************************************)
(* utils/id_generator.rs: parse_connection_id and validate_id_format.      *)
(* A string is the sequence of its characters; every character used here   *)
(* is ASCII, so len() is the number of characters.                         *)
(***************************************************************************)
DigitChars == <<"0", "1", "2", "3", "4", "5", "6", "7", "8", "9">>

\* char::is_ascii_digit
is_ascii_digit(c) == \E i \in 1..10 : DigitChars[i] = c

\* char::to_digit(10) of an ASCII digit
to_digit(c) == (CHOOSE i \in 1..10 : DigitChars[i] = c) - 1

\* str::replace(pattern, "") for a one-character pattern
replace(str, pattern) == SelectSeq(str, LAMBDA c : c # pattern)

\* the digits of a string of ASCII digits, read in base 10
RECURSIVE DecimalValue(_)
DecimalValue(str) ==
    IF str = <<>> THEN 0
    ELSE 10 * DecimalValue(SubSeq(str, 1, Len(str) - 1)) + to_digit(str[Len(str)])

\* str::parse::<u32>: an optional leading "+", then one or more ASCII digits.
\* Its callers pass seven characters, which cannot overflow 32 bits.
parse_u32(str) ==
    LET digits == IF str # <<>> /\ str[1] = "+" THEN Tail(str) ELSE str
    IN IF digits = <<>> \/ (\E i \in 1..Len(digits) : ~is_ascii_digit(digits[i]))
       THEN [ok |-> FALSE, value |-> None]
       ELSE [ok |-> TRUE, value |-> DecimalValue(digits)]

\* IdGenerator::parse_connection_id
parse_connection_id(formatted_id) ==
    LET cleaned == replace(replace(formatted_id, " "), "-")
    IN IF Len(cleaned) # 7 THEN [ok |-> FALSE, value |-> None]
       ELSE parse_u32(cleaned)

\* IdGenerator::validate_id_format
validate_id_format(id) ==
    LET cleaned == replace(replace(id, " "), "-")
    IN IF Len(cleaned) # 7 THEN FALSE
       ELSE \A i \in 1..Len(cleaned) : is_ascii_digit(cleaned[i])

\* characters that can stand between, before and after the digits
ExtraChars == {" ", "-", "\t", "+", "a"}

\* a run of k digits that starts with `first`
DigitRun(first, k) ==
    [i \in 1..k |-> IF i = 1 THEN first ELSE DigitChars[(i % 10) + 1]]

InsertAt(str, i, c) == SubSeq(str, 1, i) \o <<c>> \o SubSeq(str, i + 1, Len(str))

\* the strings of S with up to n characters of ExtraChars inserted anywhere
RECURSIVE WithExtras(_, _)
WithExtras(S, n) ==
    IF n = 0 THEN S
    ELSE LET T == WithExtras(S, n - 1)
         IN T \cup UNION {{InsertAt(str, i, c) : i \in 0..Len(str), c \in ExtraChars} :
                            str \in T}

\* the strings the two functions are called with
FormatInputs(max_digits, max_extra) ==
    WithExtras({DigitRun(first, k) : first \in {"0", "9"}, k \in 0..max_digits}, max_extra)

\* parse_connection_id and validate_id_format called on the same string, as
\* P2PManager::connect_to_host does
check_id_format ==
    /\ ~fmt_called
    /\ fmt_called' = TRUE
    /\ fmt_parsed' = parse_connection_id(fmt_input)
    /\ fmt_valid' = validate_id_format(fmt_input)
    /\ UNCHANGED <<fmt_input, notFmt>>

(***************************************************************************)
(* streaming/frame_buffer.rs. add_frame takes the counter lock, releases it *)
(* and only then takes the buffer lock, so the two halves are separate     *)
(* steps of the calling thread.                                            *)
(***************************************************************************)
\* data.len() of the frames given to add_frame
FrameSizes == {1, 2}

\* FrameBuffer::new(max_size)
InitFrameBuffer(max_size) ==
    /\ fb_buffer = <<>>
    /\ fb_max_size = max_size
    /\ fb_frame_counter = 0
    /\ fb_total_bytes = 0
    /\ fb_now = 0
    /\ fb_pending = [t \in Threads |-> <<>>]

RECURSIVE SumSizes(_)
SumSizes(frames) ==
    IF frames = <<>> THEN 0 ELSE frames[1].size_bytes + SumSizes(Tail(frames))

\* total_bytes.saturating_sub(size_bytes)
saturating_sub(a, b) == IF a >= b THEN a - b ELSE 0

\* add_frame up to the construction of frame_data: the counter is incremented
\* under its own lock and the frame is stamped
add_frame_number(t, size_bytes) ==
    /\ fb_pending[t] = <<>>
    /\ fb_frame_counter < MaxFrameId
    /\ fb_frame_counter' = fb_frame_counter + 1
    /\ fb_pending' = [fb_pending EXCEPT ![t] =
                         <<[frame_id |-> fb_frame_counter + 1, size_bytes |-> size_bytes,
                            timestamp |-> fb_now]>>]
    /\ UNCHANGED <<fb_buffer, fb_max_size, fb_total_bytes, fb_now, notFb>>

\* add_frame under the buffer lock: pop the front when len >= max_size, add the
\* size to total_bytes, push the frame at the back
add_frame_push(t) ==
    /\ fb_pending[t] # <<>>
    /\ LET frame_data == fb_pending[t][1]
           evict == Len(fb_buffer) >= fb_max_size /\ fb_buffer # <<>>
           kept == IF evict THEN Tail(fb_buffer) ELSE fb_buffer
           total == IF evict THEN saturating_sub(fb_total_bytes, fb_buffer[1].size_bytes)
                    ELSE fb_total_bytes
       IN /\ fb_buffer' = Append(kept, frame_data)
          /\ fb_total_bytes' = total + frame_data.size_bytes
    /\ fb_pending' = [fb_pending EXCEPT ![t] = <<>>]
    /\ UNCHANGED <<fb_max_size, fb_frame_counter, fb_now, notFb>>

\* FrameBuffer::get_latest_frame, as the frame_id of the frame whose data is
\* returned (<<>> for None)
get_latest_frame ==
    IF fb_buffer = <<>> THEN <<>> ELSE <<fb_buffer[Len(fb_buffer)].frame_id>>

\* FrameBuffer::clear
fb_clear ==
    /\ fb_buffer' = <<>>
    /\ fb_total_bytes' = 0
    /\ UNCHANGED <<fb_max_size, fb_frame_counter, fb_now, fb_pending, notFb>>

\* the frames left when the front is popped while it was stamped before cutoff_time
RECURSIVE DropFront(_, _)
DropFront(frames, cutoff_time) ==
    IF frames # <<>> /\ frames[1].timestamp < cutoff_time
    THEN DropFront(Tail(frames), cutoff_time)
    ELSE frames

\* what the pops of a loop leave in total_bytes: one saturating_sub per popped frame
RECURSIVE SubPopped(_, _, _)
SubPopped(total, frames, n) ==
    IF n = 0 THEN total
    ELSE SubPopped(saturating_sub(total, frames[1].size_bytes), Tail(frames), n - 1)

\* FrameBuffer::cleanup_old_frames(max_age): pops from the front while the front
\* frame is older than now - max_age
cleanup_old_frames(max_age) ==
    LET kept == DropFront(fb_buffer, fb_now - max_age)
    IN /\ fb_buffer' = kept
       /\ fb_total_bytes' = SubPopped(fb_total_bytes, fb_buffer, Len(fb_buffer) - Len(kept))
       /\ UNCHANGED <<fb_max_size, fb_frame_counter, fb_now, fb_pending, notFb>>

\* FrameBuffer::set_max_size(new_max_size): pops from the front while
\* len > new_max_size; max_size itself is not written
set_max_size(new_max_size) ==
    LET excess == IF Len(fb_buffer) > new_max_size THEN Len(fb_buffer) - new_max_size ELSE 0
    IN /\ fb_buffer' = SubSeq(fb_buffer, excess + 1, Len(fb_buffer))
       /\ fb_total_bytes' = SubPopped(fb_total_bytes, fb_buffer, excess)
       /\ UNCHANGED <<fb_max_size, fb_frame_counter, fb_now, fb_pending, notFb>>

\* the clock advances
FrameTick ==
    /\ fb_now < MaxFrameTime
    /\ fb_now' = fb_now + 1
    /\ UNCHANGED <<fb_buffer, fb_max_size, fb_frame_counter, fb_total_bytes, fb_pending,
                   notFb>>

\* a streaming loop reads is_streaming as true and enters an iteration: it
\* waits for the tick, then captures and compresses
streaming_loop_enter ==
    /\ stream_loops > stream_iterating
    /\ is_streaming
    /\ stream_iterating' = stream_iterating + 1
    /\ UNCHANGED <<stream_frames, stream_quality, stream_quality_result, notLoop>>

\* the rest of the iteration. captured: a screen streamer is installed and
\* capture_and_compress returned Ok; the frame is then added to the frame buffer
\* and FrameReady is sent. is_streaming is not read again before that.
streaming_loop_finish(captured) ==
    /\ stream_iterating > 0
    /\ stream_iterating' = stream_iterating - 1
    /\ IF captured
       THEN /\ stream_frames < MaxStreamFrames
            /\ stream_frames' = stream_frames + 1
       ELSE UNCHANGED stream_frames
    /\ UNCHANGED <<stream_quality, stream_quality_result, notLoop>>

\* StreamingManager::adjust_quality: rejects 0 and values above 100, otherwise
\* writes config.quality and the streamer's quality and sends QualityAdjusted
adjust_quality(new_quality) ==
    /\ IF new_quality = 0 \/ new_quality > 100
       THEN /\ stream_quality_result' = [new_quality |-> new_quality, ok |-> FALSE]
            /\ UNCHANGED stream_quality
       ELSE /\ stream_quality_result' = [new_quality |-> new_quality, ok |-> TRUE]
            /\ stream_quality' = new_quality
    /\ UNCHANGED <<stream_iterating, stream_frames, notLoop>>

(***************************************************************************)
(* streaming/compression.rs. An image is its width, its height and its     *)
(* pixels; a pixel is the value of one colour channel (block_changed       *)
(* compares R, G and B alike and does not compare alpha).                  *)
(***************************************************************************)
block_size == 16

threshold == 10

Min(a, b) == IF a <= b THEN a ELSE b

Abs(a) == IF a >= 0 THEN a ELSE 0 - a

Pixels(width, height) == (0..width - 1) \X (0..height - 1)

\* (0..n).step_by(block_size), as the number of values it yields; the k-th
\* value is (k - 1) * block_size
StepCount(n) == Cardinality({k \in 0..n - 1 : k % block_size = 0})

\* the blocks the two loops of compress_frame_delta visit, in the order they
\* visit them, each with its clipped width and height
ScanBlocks(width, height) ==
    [i \in 1..StepCount(width) * StepCount(height) |->
        LET x == ((i - 1) % StepCount(width)) * block_size
            y == ((i - 1) \div StepCount(width)) * block_size
        IN [x |-> x, y |-> y, width |-> Min(block_size, width - x),
            height |-> Min(block_size, height - y)]]

\* Compressor::block_changed: more than 5% of the pixels of the block differ by
\* more than the threshold. The f32 test different / total > 0.05 is
\* 20 * different > total for blocks of at most 256 pixels.
block_changed(current, previous, x, y, width, height) ==
    LET different_pixels ==
            Cardinality({p \in Pixels(width, height) :
                /\ x + p[1] < current.width /\ y + p[2] < current.height
                /\ Abs(current.pixels[<<x + p[1], y + p[2]>>]
                        - previous.pixels[<<x + p[1], y + p[2]>>]) > threshold})
    IN 20 * different_pixels > width * height

\* the still-image codec is lossy: what decompress_jpeg returns for the bytes
\* compress_jpeg made of a pixel is a value near it, here the multiple of 4 below
jpeg_pixel(v) == (v \div 4) * 4

\* decompress_jpeg(compress_jpeg(image))
jpeg(image) ==
    [width |-> image.width, height |-> image.height,
     pixels |-> [p \in DOMAIN image.pixels |-> jpeg_pixel(image.pixels[p])]]

\* Compressor::compress_frame: the encoded image alone, without a
\* DeltaFrameHeader
compress_frame(image) ==
    [frame_type |-> "Full", header |-> FALSE, block_count |-> 0, blocks |-> <<>>,
     image |-> <<jpeg(image)>>]

create_no_change_frame ==
    [frame_type |-> "NoChange", header |-> TRUE, block_count |-> 0, blocks |-> <<>>,
     image |-> <<>>]

\* Compressor::create_delta_frame: the header, then per changed block its
\* DeltaBlock and the encoded copy of the block
create_delta_frame(image, changed_blocks) ==
    [frame_type |-> "Delta", header |-> TRUE, block_count |-> Len(changed_blocks),
     blocks |-> [i \in 1..Len(changed_blocks) |->
                   LET b == changed_blocks[i]
                   IN [x |-> b.x, y |-> b.y, width |-> b.width, height |-> b.height,
                       data |-> jpeg([width |-> b.width, height |-> b.height,
                                      pixels |-> [p \in Pixels(b.width, b.height) |->
                                          image.pixels[<<b.x + p[1], b.y + p[2]>>]]])]],
     image |-> <<>>]

\* total_blocks of compress_frame_delta
total_blocks_floor(width, height) == (width \div block_size) * (height \div block_size)

total_blocks(width, height) ==
    ((width + block_size - 1) \div block_size) * ((height + block_size - 1) \div block_size)

\* Compressor::compress_frame_delta. changed_ratio > 0.5 in f32 is
\* 2 * changed > total for fewer than 2^24 blocks.
compress_frame_delta(current, previous) ==
    IF current.width # previous.width \/ current.height # previous.height
    THEN compress_frame(current)
    ELSE LET changed_blocks ==
                 SelectSeq(ScanBlocks(current.width, current.height),
                           LAMBDA b : block_changed(current, previous, b.x, b.y,
                                                    b.width, b.height))
         IN IF changed_blocks = <<>> THEN create_no_change_frame
            ELSE IF 2 * Len(changed_blocks) > total_blocks(current.width, current.height)
            THEN compress_frame(current)
            ELSE create_delta_frame(current, changed_blocks)

\* ScreenStreamer::capture_and_compress from the captured image on
capture_and_compress ==
    /\ codec_pc = "captured"
    /\ codec_pc' = "encoded"
    /\ codec_previous' = IF codec_enable_delta THEN codec_last_frame ELSE <<>>
    /\ codec_frame' =
          IF codec_enable_delta /\ codec_last_frame # <<>>
          THEN compress_frame_delta(codec_image, codec_last_frame[1])
          ELSE compress_frame(codec_image)
    /\ codec_last_frame' = IF codec_enable_delta THEN <<codec_image>> ELSE codec_last_frame
    /\ UNCHANGED <<codec_image, codec_enable_delta, codec_base, codec_decoded,
                   codec_decode_ok, codec_captures, notCodec>>

\* the base frame with the pixels of a decoded block put at (x, y), those that
\* fall inside the base frame
put_block(base_frame, block) ==
    [base_frame EXCEPT !.pixels =
        [p \in DOMAIN base_frame.pixels |->
            IF /\ p[1] >= block.x /\ p[1] < block.x + block.data.width
               /\ p[2] >= block.y /\ p[2] < block.y + block.data.height
            THEN block.data.pixels[<<p[1] - block.x, p[2] - block.y>>]
            ELSE base_frame.pixels[p]]]

RECURSIVE put_blocks(_, _)
put_blocks(base_frame, blocks) ==
    IF blocks = <<>> THEN base_frame
    ELSE put_blocks(put_block(base_frame, blocks[1]), Tail(blocks))

\* apply_delta_frame on the decoder's base frame: bytes that do not start with
\* a DeltaFrameHeader (an encoded image alone) fail to deserialize, a header of
\* type Full is refused, NoChange leaves the base frame, Delta puts the blocks
apply_delta_frame ==
    /\ codec_pc = "encoded"
    /\ codec_pc' = "decoded"
    /\ IF ~codec_frame.header \/ codec_frame.frame_type = "Full"
       THEN codec_decode_ok' = FALSE /\ codec_decoded' = codec_base
       ELSE IF codec_frame.frame_type = "NoChange"
       THEN codec_decode_ok' = TRUE /\ codec_decoded' = codec_base
       ELSE codec_decode_ok' = TRUE
            /\ codec_decoded' = put_blocks(codec_base, codec_frame.blocks)
    /\ UNCHANGED <<codec_image, codec_last_frame, codec_enable_delta, codec_previous,
                   codec_frame, codec_base, codec_captures, notCodec>>

\* the next run of the streaming loop: the screen captured is the one before
\* with every pixel moved by drift, and the decoder goes on from the frame it
\* decoded
capture_next(drift) ==
    /\ codec_pc = "decoded"
    /\ codec_captures < MaxCodecFrames
    /\ codec_captures' = codec_captures + 1
    /\ codec_pc' = "captured"
    /\ codec_image' = [codec_image EXCEPT !.pixels =
                          [p \in DOMAIN codec_image.pixels |-> codec_image.pixels[p] + drift]]
    /\ codec_base' = codec_decoded
    /\ UNCHANGED <<codec_last_frame, codec_enable_delta, codec_previous, codec_frame,
                   codec_decoded, codec_decode_ok, notCodec>>

\* the inputs: image sizes with one to four blocks, whole and clipped
ImageDims == {<<16, 2>>, <<20, 5>>, <<33, 2>>, <<17, 17>>}

\* what a captured frame does to one block of the previous frame: -1 moves its
\* first pixel by exactly the threshold, d >= 0 moves its first d pixels beyond
\* the threshold, block_size * block_size moves them all
EditKinds == (-1..MaxDiffPixels) \cup {block_size * block_size}

Uniform(width, height) ==
    [width |-> width, height |-> height, pixels |-> [p \in Pixels(width, height) |-> 100]]

\* index of the block of ScanBlocks(width, height) that holds pixel p
BlockOf(width, p) == (p[2] \div block_size) * StepCount(width) + (p[1] \div block_size) + 1

Edited(width, height, edits) ==
    LET blocks == ScanBlocks(width, height) IN
    [width |-> width, height |-> height,
     pixels |-> [p \in Pixels(width, height) |->
        LET b == blocks[BlockOf(width, p)]
            index == (p[2] - b.y) * b.width + (p[1] - b.x)
            edit == edits[BlockOf(width, p)]
        IN IF edit = -1 THEN (IF index = 0 THEN 100 + threshold ELSE 100)
           ELSE IF index < edit THEN 100 + threshold + 1 ELSE 100]]

\* a frame after a previous one of the same size, edited block by block
EditedInputs(dims) ==
    UNION {{[last_frame |-> <<Uniform(d[1], d[2])>>, image |-> Edited(d[1], d[2], edits),
             enable_delta |-> TRUE] :
               edits \in [1..StepCount(d[1]) * StepCount(d[2]) -> EditKinds]} :
           d \in dims}

\* a first frame, a frame after one of another size, and frames of a streamer
\* whose delta compression is off
OtherInputs(dims) ==
    {[last_frame |-> <<>>, image |-> Uniform(d[1], d[2]), enable_delta |-> e] :
        d \in dims, e \in BOOLEAN}
    \cup {[last_frame |-> <<Uniform(d[1], d[2])>>, image |-> Uniform(c[1], c[2]),
           enable_delta |-> e] : d \in dims, c \in dims, e \in BOOLEAN}

CodecInputs(dims) == EditedInputs(dims) \cup OtherInputs(dims)

\* the decoder's base frame: the previous frame as the decoder decoded it
InitCodec(input) ==
    /\ codec_pc = "captured"
    /\ codec_captures = 0
    /\ codec_image = input.image
    /\ codec_last_frame = input.last_frame
    /\ codec_enable_delta = input.enable_delta
    /\ codec_previous = <<>>
    /\ codec_frame = create_no_change_frame
    /\ codec_base = IF input.last_frame = <<>> THEN Uniform(0, 0)
                    ELSE jpeg(input.last_frame[1])
    /\ codec_decoded = Uniform(0, 0)
    /\ codec_decode_ok = FALSE

(***************************************************************************)
(* network/connection_manager.rs: the calls on one ConnectionManager with  *)
(* the default configuration, step by step between the points where they   *)
(* wait for a lock or for I/O. connection_status is written under a guard   *)
(* that is dropped before the next await, so only its read guards and the   *)
(* guards on relay_client are held from one step to the next.               *)
(***************************************************************************)
\* one call of each method at a time
LockCalls == {"start_hosting", "connect_to_host", "disconnect",
              "send_screen_frame", "send_input_event"}

\* connection_status.write().await can be granted
StatusWritable == lk_status_readers = {}
\* relay_client.write().await can be granted
RelayWritable == lk_relay_writer = {} /\ lk_relay_readers = {}
\* relay_client.read().await can be granted
RelayReadable == lk_relay_writer = {}

LockStep(t, pc) == lk_pc' = [lk_pc EXCEPT ![t] = pc]

\* a call is made
lk_call(t) ==
    /\ lk_pc[t] = "idle"
    /\ LockStep(t, "begin")
    /\ UNCHANGED <<lk_initialized, lk_status, lk_status_readers, lk_relay_writer,
                   lk_relay_readers, lk_event_task, lk_events, notLock>>

\* ConnectionManager::initialize, when no other call is in progress
lk_initialize ==
    /\ ~lk_initialized
    /\ \A t \in LockCalls : lk_pc[t] = "idle"
    /\ lk_initialized' = TRUE
    /\ UNCHANGED <<lk_pc, lk_status, lk_status_readers, lk_relay_writer,
                   lk_relay_readers, lk_event_task, lk_events, notLock>>

\* start_hosting and connect_to_host: update_status(Connecting); start_hosting
\* returns the error of the missing connection id when not initialized, and
\* connect_to_host finds neither transport
lk_bring_up_begin(t) ==
    /\ t \in {"start_hosting", "connect_to_host"}
    /\ lk_pc[t] = "begin"
    /\ StatusWritable
    /\ lk_status' = Connecting
    /\ LockStep(t, IF lk_initialized THEN "p2p"
                   ELSE IF t = "start_hosting" THEN "idle" ELSE "fail")
    /\ UNCHANGED <<lk_initialized, lk_status_readers, lk_relay_writer,
                   lk_relay_readers, lk_event_task, lk_events, notLock>>

\* the P2P attempt returns: on success the status is to be written, otherwise
\* the relay fallback follows
lk_bring_up_p2p(t, p2p_ok) ==
    /\ t \in {"start_hosting", "connect_to_host"}
    /\ lk_pc[t] = "p2p"
    /\ LockStep(t, IF p2p_ok THEN "p2p_status" ELSE "relay_lock")
    /\ UNCHANGED <<lk_initialized, lk_status, lk_status_readers, lk_relay_writer,
                   lk_relay_readers, lk_event_task, lk_events, notLock>>

\* update_status(Connected(P2P)), Ok returned
lk_bring_up_p2p_status(t) ==
    /\ lk_pc[t] = "p2p_status"
    /\ StatusWritable
    /\ lk_status' = Connected("P2P")
    /\ LockStep(t, "idle")
    /\ UNCHANGED <<lk_initialized, lk_status_readers, lk_relay_writer,
                   lk_relay_readers, lk_event_task, lk_events, notLock>>

\* self.relay_client.write().await of the relay fallback
lk_bring_up_relay_lock(t) ==
    /\ t \in {"start_hosting", "connect_to_host"}
    /\ lk_pc[t] = "relay_lock"
    /\ RelayWritable
    /\ lk_relay_writer' = {t}
    /\ LockStep(t, "relay_io")
    /\ UNCHANGED <<lk_initialized, lk_status, lk_status_readers, lk_relay_readers,
                   lk_event_task, lk_events, notLock>>

\* start_hosting: connect and register return under the write guard; on
\* success the event task is spawned, the guard dropped and Ok returned, and the
\* relay will answer the registration; an error is returned with ?
lk_start_hosting_relay_io(relay_ok) ==
    /\ lk_pc["start_hosting"] = "relay_io"
    /\ lk_relay_writer' = {}
    /\ IF relay_ok
       THEN lk_event_task' = TRUE /\ lk_events' = 1
       ELSE UNCHANGED <<lk_event_task, lk_events>>
    /\ LockStep("start_hosting", "idle")
    /\ UNCHANGED <<lk_initialized, lk_status, lk_status_readers, lk_relay_readers, notLock>>

\* connect_to_host: connect, register and connect_to_peer return under the
\* write guard; an error is returned with ?, otherwise the status is to be
\* written with the guard still held
lk_connect_to_host_relay_io(relay_ok) ==
    /\ lk_pc["connect_to_host"] = "relay_io"
    /\ IF relay_ok
       THEN LockStep("connect_to_host", "relay_status") /\ UNCHANGED lk_relay_writer
       ELSE LockStep("connect_to_host", "idle") /\ lk_relay_writer' = {}
    /\ UNCHANGED <<lk_initialized, lk_status, lk_status_readers, lk_relay_readers,
                   lk_event_task, lk_events, notLock>>

\* connect_to_host: update_status(Connected(Relay)) inside the if let that
\* holds the write guard on relay_client, then Ok
lk_connect_to_host_relay_status ==
    /\ lk_pc["connect_to_host"] = "relay_status"
    /\ StatusWritable
    /\ lk_status' = Connected("Relay")
    /\ lk_relay_writer' = {}
    /\ LockStep("connect_to_host", "idle")
    /\ UNCHANGED <<lk_initialized, lk_status_readers, lk_relay_readers,
                   lk_event_task, lk_events, notLock>>

\* connect_to_host: update_status(Failed(..)) when no transport was found
lk_connect_to_host_fail ==
    /\ lk_pc["connect_to_host"] = "fail"
    /\ StatusWritable
    /\ lk_status' = Failed("Failed to establish connection via P2P or Relay")
    /\ LockStep("connect_to_host", "idle")
    /\ UNCHANGED <<lk_initialized, lk_status_readers, lk_relay_writer,
                   lk_relay_readers, lk_event_task, lk_events, notLock>>

\* disconnect: P2PManager::disconnect under a read guard on p2p_manager
lk_disconnect_begin ==
    /\ lk_pc["disconnect"] = "begin"
    /\ LockStep("disconnect", "relay_lock")
    /\ UNCHANGED <<lk_initialized, lk_status, lk_status_readers, lk_relay_writer,
                   lk_relay_readers, lk_event_task, lk_events, notLock>>

\* disconnect: relay_client.write().await and RelayClient::disconnect, which
\* awaits nothing but its own flags; the guard is dropped after the if let
lk_disconnect_relay ==
    /\ lk_pc["disconnect"] = "relay_lock"
    /\ RelayWritable
    /\ LockStep("disconnect", "status")
    /\ UNCHANGED <<lk_initialized, lk_status, lk_status_readers, lk_relay_writer,
                   lk_relay_readers, lk_event_task, lk_events, notLock>>

\* disconnect: update_status(Disconnected), Ok
lk_disconnect_status ==
    /\ lk_pc["disconnect"] = "status"
    /\ StatusWritable
    /\ lk_status' = Disconnected
    /\ LockStep("disconnect", "idle")
    /\ UNCHANGED <<lk_initialized, lk_status_readers, lk_relay_writer,
                   lk_relay_readers, lk_event_task, lk_events, notLock>>

\* send_screen_frame and send_input_event: connection_status.read().await, kept
\* to the end of the call; the P2P arm and the error arm return at once, the
\* relay arm goes on to relay_client.read().await
lk_send_begin(t) ==
    /\ t \in {"send_screen_frame", "send_input_event"}
    /\ lk_pc[t] = "begin"
    /\ IF lk_status = Connected("Relay")
       THEN /\ lk_status_readers' = lk_status_readers \cup {t}
            /\ LockStep(t, "relay_read")
       ELSE /\ UNCHANGED lk_status_readers
            /\ LockStep(t, "idle")
    /\ UNCHANGED <<lk_initialized, lk_status, lk_relay_writer, lk_relay_readers,
                   lk_event_task, lk_events, notLock>>

\* the relay arm: relay_client.read().await, the send of the RelayClient, and
\* both guards dropped on return
lk_send_relay(t) ==
    /\ lk_pc[t] = "relay_read"
    /\ RelayReadable
    /\ lk_status_readers' = lk_status_readers \ {t}
    /\ LockStep(t, "idle")
    /\ UNCHANGED <<lk_initialized, lk_status, lk_relay_writer, lk_relay_readers,
                   lk_event_task, lk_events, notLock>>

\* the relay event task on RegistrationSuccess: connection_status.write().await
lk_relay_event_task ==
    /\ lk_event_task
    /\ lk_events > 0
    /\ StatusWritable
    /\ lk_status' = Connected("Relay")
    /\ lk_events' = lk_events - 1
    /\ UNCHANGED <<lk_pc, lk_initialized, lk_status_readers, lk_relay_writer,
                   lk_relay_readers, lk_event_task, notLock>>

\* the calls that are in progress, and whether one waits for a lock that
\* cannot be granted
LockInProgress == {t \in LockCalls : lk_pc[t] # "idle"}
LockBlocked(t) ==
    \/ /\ lk_pc[t] \in {"p2p_status", "relay_status", "fail", "status"}
       /\ ~StatusWritable
    \/ /\ lk_pc[t] = "begin" /\ t \in {"start_hosting", "connect_to_host"}
       /\ ~StatusWritable
    \/ lk_pc[t] = "relay_lock" /\ ~RelayWritable
    \/ lk_pc[t] = "relay_read" /\ ~RelayReadable

(***************************************************************************)
(* main.rs: the tauri command handlers. Each handler builds its manager    *)
(* with ::new(), calls it and drops it when it returns.                    *)
(***************************************************************************)
\* ConnectionManager::new(): default configuration, no id, no transports,
\* status Disconnected
NewConnectionManager ==
    [config |-> DefaultConnectionConfig, current_connection_id |-> <<>>,
     connection_status |-> Disconnected]

\* PermissionManager::new(): default configuration, no request, no grant
NewPermissionManager ==
    [config |-> DefaultPermissionConfig, pending_requests |-> <<>>,
     active_grants |-> <<>>]

\* the match of get_connection_status on the status
status_str(status) ==
    IF status.tag = "Disconnected" THEN "disconnected"
    ELSE IF status.tag = "Connecting" THEN "connecting"
    ELSE IF status = Connected("P2P") THEN "connected_p2p"
    ELSE IF status = Connected("Relay") THEN "connected_relay"
    ELSE "failed"

CmdResult(op, ok, value, connection_id, request_id) ==
    [op |-> op, ok |-> ok, value |-> value, connection_id |-> connection_id,
     request_id |-> request_id]

\* start_hosting_with_fallback: a new manager, initialize (which mints
\* numeric_id), start_hosting; the manager is dropped on return
cmd_start_hosting_with_fallback(numeric_id, p2p_bind_ok, relay_reachable) ==
    LET manager == NewConnectionManager
        p2p_ok == manager.config.p2p_enabled /\ p2p_bind_ok
        try_relay == /\ ~p2p_ok
                     /\ (manager.config.p2p_enabled => manager.config.auto_fallback_to_relay)
                     /\ manager.config.relay_enabled
        relay_ok == try_relay /\ manager.config.relay_config_enabled /\ relay_reachable
        ok == p2p_ok \/ relay_ok
    IN /\ cmd_result' = CmdResult("start_hosting_with_fallback", ok,
                            IF ok THEN generate_connection_id(numeric_id).formatted_id
                            ELSE "error", "", None)
       /\ cmd_hosting' = IF p2p_ok THEN "P2P" ELSE IF relay_ok THEN "Relay" ELSE "none"
       /\ UNCHANGED <<cmd_requested, cmd_granted, notCmd>>

\* get_connection_status: the status of a new manager
cmd_get_connection_status ==
    /\ cmd_result' = CmdResult("get_connection_status", TRUE,
                         status_str(NewConnectionManager.connection_status), "", None)
    /\ UNCHANGED <<cmd_hosting, cmd_requested, cmd_granted, notCmd>>

\* request_permission: a new manager, initialize, request_permission; the
\* request is stored in the manager that is dropped on return
cmd_request_permission(connection_id) ==
    LET manager == NewPermissionManager
        whitelisted == /\ manager.config.enable_whitelist
                       /\ DeviceName(connection_id) \in manager.config.whitelisted_devices
        full == Cardinality(DOMAIN manager.active_grants)
                    >= manager.config.max_concurrent_connections
        id == Cardinality(DOMAIN cmd_requested) + 1
    IN /\ id <= MaxCmdRequests
       /\ IF whitelisted \/ full
          THEN /\ cmd_result' = CmdResult("request_permission", ~full, "", connection_id, None)
               /\ UNCHANGED cmd_requested
          ELSE /\ cmd_result' = CmdResult("request_permission", TRUE, "", connection_id, id)
               /\ cmd_requested' = [r \in DOMAIN cmd_requested \cup {id} |->
                                       IF r = id THEN connection_id ELSE cmd_requested[r]]
       /\ UNCHANGED <<cmd_hosting, cmd_granted, notCmd>>

\* respond_to_permission_request: respond_to_request on a new manager
cmd_respond_to_permission_request(request_id, granted) ==
    LET manager == NewPermissionManager
        found == request_id \in DOMAIN manager.pending_requests
    IN /\ cmd_result' = CmdResult("respond_to_permission_request", found,
                            IF found THEN "" ELSE "Permission request not found",
                            "", request_id)
       /\ cmd_granted' = IF found /\ granted
                         THEN cmd_granted \cup {manager.pending_requests[request_id].connection_id}
                         ELSE cmd_granted
       /\ UNCHANGED <<cmd_hosting, cmd_requested, notCmd>>

\* check_permission (the command): check_permission on a new manager
cmd_check_permission(connection_id, permission) ==
    LET manager == NewPermissionManager
        has_permission == IF connection_id \in DOMAIN manager.active_grants
                          THEN permission \in manager.active_grants[connection_id].permissions
                          ELSE FALSE
    IN /\ cmd_result' = CmdResult("check_permission", TRUE,
                            IF has_permission THEN "true" ELSE "false",
                            connection_id, None)
       /\ UNCHANGED <<cmd_hosting, cmd_requested, cmd_granted, notCmd>>

(***************************************************************************)
(* utils/file_transfer.rs                                                  *)
(***************************************************************************)
\* files send_file is called on: byte i of the file has the value i, so that a
\* byte written to the wrong place shows
TransferFiles == {[i \in 1..n |-> i] : n \in 0..MaxFileSize}

\* TransferConfig values, with chunk_size scaled down from 64 * 1024
TransferConfigs == [chunk_size : {2, 3}, enable_compression : BOOLEAN]

\* calculate_data_checksum: a hash of the data, compared for equality only
calculate_data_checksum(data) == <<"hash", data>>

\* compress_data and decompress_data: flate2's gzip stream for the data, as a
\* header byte followed by the payload
compress_data(data) == <<0>> \o data

decompress_data(data) == Tail(data)

\* seek(SeekFrom::Start(offset)) and write_all(data) on a file: the bytes
\* written replace or extend the file, a gap past the old end reads as zeros
WriteAt(file, offset, data) ==
    LET end == offset + Len(data)
        len == IF end > Len(file) THEN end ELSE Len(file)
    IN  [i \in 1..len |-> IF i > offset /\ i <= end THEN data[i - offset]
                          ELSE IF i <= Len(file) THEN file[i] ELSE 0]

\* the chunk indices of a file: those whose offset lies inside it
ChunkIndices(file_size, chunk_size) ==
    {i \in 0..file_size : i * chunk_size < file_size}

send_file(file, new_config) ==
    /\ ~ft_upload.exists
    /\ ft_source' = file
    /\ ft_config' = new_config
    /\ ft_upload' = [exists |-> TRUE, file_size |-> Len(file), bytes_transferred |-> 0,
                     status |-> "Pending", is_upload |-> TRUE]
    /\ UNCHANGED <<ft_download, ft_dest, ft_chunks, ft_sent, ft_last_write, notFt>>

\* the receiver accepts the FileTransferRequest of the upload; no file exists
\* at the save path
accept_file_transfer ==
    /\ ft_upload.exists
    /\ ~ft_download.exists
    /\ ft_download' = [exists |-> TRUE, file_size |-> ft_upload.file_size,
                       bytes_transferred |-> 0, status |-> "Pending",
                       is_upload |-> FALSE]
    /\ UNCHANGED <<ft_source, ft_config, ft_upload, ft_dest, ft_chunks, ft_sent,
                   ft_last_write, notFt>>

\* shorter: the gzip stream came out shorter than the chunk.  A chunk index is
\* asked for once; an index whose offset is past the end is an error and
\* changes nothing.
send_chunk(chunk_index, shorter) ==
    /\ ft_upload.exists
    /\ ft_download.exists
    /\ chunk_index \notin ft_sent
    /\ LET chunk_size == ft_config.chunk_size
           offset == chunk_index * chunk_size
           actual_chunk_size == Min(ft_upload.file_size - offset, chunk_size)
           buffer == SubSeq(ft_source, offset + 1, offset + actual_chunk_size)
           is_compressed == ft_config.enable_compression /\ shorter
           data == IF is_compressed THEN compress_data(buffer) ELSE buffer
       IN  /\ offset < ft_upload.file_size
           /\ ft_upload' = [ft_upload EXCEPT
                              !.bytes_transferred = @ + actual_chunk_size,
                              !.status = "Transferring"]
           /\ ft_chunks' = ft_chunks \cup
                             {[chunk_index |-> chunk_index, data |-> data,
                               is_compressed |-> is_compressed,
                               checksum |-> calculate_data_checksum(data)]}
           /\ ft_sent' = ft_sent \cup {chunk_index}
    /\ UNCHANGED <<ft_source, ft_config, ft_download, ft_dest, ft_last_write, notFt>>

receive_chunk_write(chunk) ==
    /\ chunk \in ft_chunks
    /\ ft_download.exists
    /\ ~ft_download.is_upload
    /\ calculate_data_checksum(chunk.data) = chunk.checksum
    /\ LET data == IF chunk.is_compressed THEN decompress_data(chunk.data) ELSE chunk.data
           chunk_size == Len(data)
           offset == chunk.chunk_index * chunk_size
           bytes_transferred == ft_download.bytes_transferred + Len(data)
       IN  /\ ft_dest' = WriteAt(ft_dest, offset, data)
           /\ ft_last_write' = [written |-> TRUE, chunk_index |-> chunk.chunk_index,
                                offset |-> offset]
           /\ ft_download' = [ft_download EXCEPT
                                !.bytes_transferred = bytes_transferred,
                                !.status = IF bytes_transferred >= ft_download.file_size
                                             THEN "Completed" ELSE "Transferring"]
    /\ ft_chunks' = ft_chunks \ {chunk}
    /\ UNCHANGED <<ft_source, ft_config, ft_upload, ft_sent, notFt>>

\* the chunk of that index that is on its way is handed to the receiver
receive_chunk(chunk_index) ==
    \E chunk \in ft_chunks : chunk.chunk_index = chunk_index /\ receive_chunk_write(chunk)

(***************************************************************************)
(* Specification of the Permission Store and the input handlers            *)
(***************************************************************************)
InitManagers ==
    /\ now = 0
    /\ config = DefaultPermissionConfig
    /\ pending_requests = <<>>
    /\ active_grants = <<>>
    /\ event_sender = FALSE
    /\ next_cleanup = None
    /\ next_request_id = 0
    /\ emitted = <<>>
    /\ perm_result = "Ok"
    /\ last_grant = [c \in ConnIds |-> <<>>]
    /\ conn_config = DefaultConnectionConfig
    /\ current_connection_id = <<>>
    /\ p2p_manager = FALSE
    /\ relay_client = FALSE
    /\ connection_status = Disconnected
    /\ relay_enabled_copy = FALSE
    /\ relay_is_connected = FALSE
    /\ relay_is_registered = FALSE
    /\ relay_connection_id = <<>>
    /\ relay_readers = 0
    /\ relay_orphan_readers = 0
    /\ relay_events = <<>>
    /\ p2p_is_host = FALSE
    /\ p2p_has_id = FALSE
    /\ conn_result = CallResult("new", TRUE, "none", "none", "")
    /\ status_age = 0
    \* NetworkManager::initialize_connection_requests builds the arbiter and
    \* starts it: the cleanup interval ticks first at once
    /\ arb_now = 0
    /\ arb_pending = <<>>
    /\ arb_next_cleanup = 0
    /\ arb_created = 0
    /\ arb_delivered = 0
    /\ arb_request_updates = [r \in ArbIds |-> 0]
    /\ arb_outcomes = [r \in ArbIds |-> <<>>]
    /\ arb_result = "Ok"
    /\ arb_inserted_at = [r \in ArbIds |-> None]
    /\ arb_left = [r \in ArbIds |-> {}]
    /\ cmd_result = CmdResult("none", TRUE, "", "", None)
    /\ cmd_hosting = "none"
    /\ cmd_requested = <<>>
    /\ cmd_granted = {}
    /\ used_ids = {}
    /\ id_pc = [t \in Threads |-> "idle"]
    /\ id_attempts = [t \in Threads |-> 0]
    /\ id_drawn = [t \in Threads |-> None]
    /\ id_result = [t \in Threads |-> IdResult(FALSE, None, 0)]
    /\ outstanding = [n \in IdSpace |-> 0]
    /\ host_used_ids = {}
    /\ host_current_connection_id = <<>>
    /\ host_is_host = FALSE
    /\ host_acceptors = 0
    /\ host_active_connections = {}
    /\ host_result = HostResult("new", TRUE, None)
    /\ stream_iterating = 0
    /\ stream_frames = 0
    /\ stream_quality = 75
    /\ stream_quality_result = [new_quality |-> 75, ok |-> TRUE]
    /\ lk_pc = [t \in LockCalls |-> "idle"]
    /\ lk_initialized = FALSE
    /\ lk_status = Disconnected
    /\ lk_status_readers = {}
    /\ lk_relay_writer = {}
    /\ lk_relay_readers = {}
    /\ lk_event_task = FALSE
    /\ lk_events = 0
    /\ enigo_held = {}
    /\ pressed_keys = {}
    /\ kb_result = [called |-> FALSE]
    /\ ft_source = <<>>
    /\ ft_config = [chunk_size |-> 2, enable_compression |-> TRUE]
    /\ ft_upload = [exists |-> FALSE]
    /\ ft_download = [exists |-> FALSE]
    /\ ft_dest = <<>>
    /\ ft_chunks = {}
    /\ ft_sent = {}
    /\ ft_last_write = [written |-> FALSE]
    /\ disc_is_running = FALSE
    /\ discovered_devices = {}
    /\ disc_starts = 0
    /\ disc_goodbyes = 0
    /\ disc_last = "new"
    /\ disc_now = 0
    /\ disc_next_cleanup = 0
    /\ device_updates = 0
    /\ device_updates_last = {}
    /\ disc_step = DiscStep("new", FALSE, FALSE)
    /\ disc_listener = <<>>
    /\ disc_announcers_checking = 0
    /\ disc_announcers_ticking = 0
    /\ disc_announce_stopped = FALSE
    /\ is_streaming = FALSE
    /\ start_time = FALSE
    /\ stream_loops = 0
    /\ stream_last = "new"
    /\ input_config = [enable_mouse |-> TRUE, enable_keyboard |-> TRUE]
    /\ last_input = [kind |-> "none", connection_id |-> "", applied |-> FALSE]

\* no string has been given to parse_connection_id or validate_id_format
Init ==
    /\ InitManagers
    /\ fmt_input = <<>>
    /\ fmt_called = FALSE
    /\ fmt_parsed = [ok |-> FALSE, value |-> None]
    /\ fmt_valid = FALSE
    /\ InitFrameBuffer(3)
    /\ InitCodec([last_frame |-> <<>>, image |-> Uniform(0, 0), enable_delta |-> TRUE])

PermNext ==
    \/ initialize
    \/ \E new_config \in ConfigChoices : update_config(new_config)
    \/ \E c \in ConnIds, ps \in PermSets : request_permission(c, ps)
    \/ \E r \in 1..MaxRequests, resp \in PermissionResponses : respond_to_request(r, resp)
    \/ \E c \in ConnIds, ps \in {<<>>} \cup {<<x>> : x \in PermSets} : revoke_permissions(c, ps)
    \/ cleanup_task
    \/ Tick

InputNext ==
    \/ \E c \in ConnIds : handle_mouse_event(c)
    \/ \E c \in ConnIds : handle_keyboard_event(c)
    \/ \E new_config \in InputConfigs : input_update_config(new_config)

Next == PermNext

Spec == Init /\ [][Next]_vars

\* the input handlers next to the calls that give, take and age a grant
NextInput ==
    \/ \E c \in ConnIds, ps \in PermSets : request_permission(c, ps)
    \/ \E r \in 1..MaxRequests, resp \in PermissionResponses : respond_to_request(r, resp)
    \/ \E c \in ConnIds, ps \in {<<>>} \cup {<<x>> : x \in PermSets} : revoke_permissions(c, ps)
    \/ Tick
    \/ InputNext

SpecInput == Init /\ [][NextInput]_vars

(***************************************************************************)
(* Specification of the Connection Manager                                 *)
(***************************************************************************)
ConnNext ==
    \/ \E numeric_id \in IdSpace : cm_initialize(numeric_id)
    \/ \E new_config \in ConnConfigChoices : cm_update_config(new_config)
    \/ \E p2p_bind_ok \in BOOLEAN, relay_reachable \in BOOLEAN :
          start_hosting(p2p_bind_ok, relay_reachable)
    \/ \E p2p_connected \in BOOLEAN, relay_reachable \in BOOLEAN :
          connect_to_host(p2p_connected, relay_reachable)
    \/ disconnect
    \/ \E drained \in BOOLEAN, msg \in RelayServerMessages : relay_reader(drained, msg)
    \/ relay_event_task

SpecConn == Init /\ [][ConnNext]_vars

(***************************************************************************)
(* Specification of the send path: a manager with the default              *)
(* configuration brought up, torn down and sent on                         *)
(***************************************************************************)
SendNext ==
    \/ \E numeric_id \in IdSpace : cm_initialize(numeric_id)
    \/ \E p2p_bind_ok \in BOOLEAN, relay_reachable \in BOOLEAN :
          start_hosting(p2p_bind_ok, relay_reachable)
    \/ \E p2p_connected \in BOOLEAN, relay_reachable \in BOOLEAN :
          connect_to_host(p2p_connected, relay_reachable)
    \/ disconnect
    \/ \E drained \in BOOLEAN, msg \in RelayServerMessages : relay_reader(drained, msg)
    \/ relay_event_task
    \/ send_screen_frame
    \/ send_input_event

SpecSend == Init /\ [][SendNext]_vars

(***************************************************************************)
(* Specification of starting and stopping the Streamer, Discovery and the  *)
(* Connection Manager                                                      *)
(***************************************************************************)
StopNext ==
    \/ start_streaming
    \/ stop_streaming
    \/ streaming_loop_exit
    \/ discovery_start
    \/ discovery_stop
    \/ \E device_id \in PeerIds, message_type \in {"Announce", "Goodbye"} :
          discovery_receive(DiscoveryMessage(message_type, device_id, PeerIp(device_id)))
    \/ \E numeric_id \in IdSpace : cm_initialize(numeric_id)
    \/ \E p2p_bind_ok \in BOOLEAN, relay_reachable \in BOOLEAN :
          start_hosting(p2p_bind_ok, relay_reachable)
    \/ disconnect

SpecStop == Init /\ [][StopNext]_vars

(***************************************************************************)
(* Specification of the command handlers                                   *)
(***************************************************************************)
CmdNext ==
    \/ \E numeric_id \in IdSpace, p2p_bind_ok \in BOOLEAN, relay_reachable \in BOOLEAN :
          cmd_start_hosting_with_fallback(numeric_id, p2p_bind_ok, relay_reachable)
    \/ cmd_get_connection_status
    \/ \E connection_id \in ConnIds : cmd_request_permission(connection_id)
    \/ \E request_id \in 1..MaxCmdRequests, granted \in BOOLEAN :
          cmd_respond_to_permission_request(request_id, granted)
    \/ \E connection_id \in ConnIds, permission \in Permission :
          cmd_check_permission(connection_id, permission)

SpecCmd == Init /\ [][CmdNext]_vars

(***************************************************************************)
(* Specification of the id generator under concurrent mint and release     *)
(***************************************************************************)
IdNext ==
    \/ \E t \in Threads : generate_begin(t)
    \/ \E t \in Threads, numeric_id \in IdSpace : generate_draw(t, numeric_id)
    \/ \E t \in Threads : generate_draw_reserved(t)
    \/ \E t \in Threads : generate_exhausted(t)
    \/ \E t \in Threads : generate_insert(t)
    \/ \E numeric_id \in IdSpace : release_id(numeric_id)

SpecId == Init /\ [][IdNext]_vars

(***************************************************************************)
(* Specification of the host session of a P2PManager                       *)
(***************************************************************************)
HostNext ==
    \/ \E numeric_id \in IdSpace, mint_fails \in BOOLEAN, bind_ok \in BOOLEAN :
          start_host(numeric_id, mint_fails, bind_ok)
    \/ \E peer \in HostPeers : host_accept(peer)
    \/ stop_host
    \/ p2p_disconnect

SpecHost == Init /\ [][HostNext]_vars

(***************************************************************************)
(* Specification of parse_connection_id and validate_id_format: the input  *)
(* is drawn at the start, the step applies both functions to it            *)
(***************************************************************************)
InitFmt ==
    /\ InitManagers
    /\ fmt_input \in FormatInputs(MaxDigits, MaxExtra)
    /\ fmt_called = FALSE
    /\ fmt_parsed = [ok |-> FALSE, value |-> None]
    /\ fmt_valid = FALSE
    /\ InitFrameBuffer(3)
    /\ InitCodec([last_frame |-> <<>>, image |-> Uniform(0, 0), enable_delta |-> TRUE])

FmtNext == check_id_format

SpecFmt == InitFmt /\ [][FmtNext]_vars

(***************************************************************************)
(* Specification of a FrameBuffer built with any max_size and used from    *)
(* several threads                                                         *)
(***************************************************************************)
InitFrame ==
    /\ InitManagers
    /\ fmt_input = <<>>
    /\ fmt_called = FALSE
    /\ fmt_parsed = [ok |-> FALSE, value |-> None]
    /\ fmt_valid = FALSE
    /\ \E max_size \in 0..MaxFrames : InitFrameBuffer(max_size)
    /\ InitCodec([last_frame |-> <<>>, image |-> Uniform(0, 0), enable_delta |-> TRUE])

FrameNext ==
    \/ \E t \in Threads, size_bytes \in FrameSizes : add_frame_number(t, size_bytes)
    \/ \E t \in Threads : add_frame_push(t)
    \/ fb_clear
    \/ \E max_age \in 0..MaxFrameTime : cleanup_old_frames(max_age)
    \/ \E new_max_size \in 0..MaxFrames : set_max_size(new_max_size)
    \/ FrameTick

SpecFrame == InitFrame /\ [][FrameNext]_vars

(***************************************************************************)
(* Specification of the Streamer with its loops                            *)
(***************************************************************************)
StreamNext ==
    \/ start_streaming
    \/ stop_streaming
    \/ streaming_loop_exit
    \/ streaming_loop_enter
    \/ \E captured \in BOOLEAN : streaming_loop_finish(captured)
    \/ \E new_quality \in {0, 1, 100, 101} : adjust_quality(new_quality)

SpecStream == Init /\ [][StreamNext]_vars

(***************************************************************************)
(* Specification of the encoder and the decoder: the captured frame and    *)
(* the previous one are drawn at the start                                 *)
(***************************************************************************)
InitCodecSpec ==
    /\ InitManagers
    /\ fmt_input = <<>>
    /\ fmt_called = FALSE
    /\ fmt_parsed = [ok |-> FALSE, value |-> None]
    /\ fmt_valid = FALSE
    /\ InitFrameBuffer(3)
    /\ \E input \in CodecInputs(ImageDims) : InitCodec(input)

CodecNext ==
    \/ capture_and_compress
    \/ apply_delta_frame

SpecCodec == InitCodecSpec /\ [][CodecNext]_vars

(***************************************************************************)
(* Specification of the discovery peer table: the listener, the cleanup    *)
(* task and the clock                                                      *)
(***************************************************************************)
PeersNext ==
    \/ discovery_start
    \/ discovery_stop
    \/ \E message \in DiscoveryMessages : discovery_receive(message)
    \/ discovery_run_cleanup_task
    \/ discovery_tick

SpecPeers == Init /\ [][PeersNext]_vars

(***************************************************************************)
(* Specification of the discovery tasks: the listener and the announcers   *)
(* next to start and stop                                                  *)
(***************************************************************************)
DiscTasksNext ==
    \/ discovery_start
    \/ discovery_stop
    \/ \E message \in DiscoveryMessages : listener_receive(message)
    \/ listener_handle
    \/ announcer_check
    \/ announcer_announce

SpecDiscTasks == Init /\ [][DiscTasksNext]_vars

(***************************************************************************)
(* Specification of concurrent calls on one ConnectionManager              *)
(***************************************************************************)
LocksNext ==
    \/ lk_initialize
    \/ \E t \in LockCalls : lk_call(t)
    \/ \E t \in LockCalls : lk_bring_up_begin(t)
    \/ \E t \in LockCalls, p2p_ok \in BOOLEAN : lk_bring_up_p2p(t, p2p_ok)
    \/ \E t \in LockCalls : lk_bring_up_p2p_status(t)
    \/ \E t \in LockCalls : lk_bring_up_relay_lock(t)
    \/ \E relay_ok \in BOOLEAN : lk_start_hosting_relay_io(relay_ok)
    \/ \E relay_ok \in BOOLEAN : lk_connect_to_host_relay_io(relay_ok)
    \/ lk_connect_to_host_relay_status
    \/ lk_connect_to_host_fail
    \/ lk_disconnect_begin
    \/ lk_disconnect_relay
    \/ lk_disconnect_status
    \/ \E t \in LockCalls : lk_send_begin(t)
    \/ \E t \in LockCalls : lk_send_relay(t)
    \/ lk_relay_event_task

SpecLocks == Init /\ [][LocksNext]_vars

(***************************************************************************)
(* Specification of a stream of frames through the encoder and the decoder *)
(***************************************************************************)
StreamDims == {<<16, 2>>, <<20, 5>>}

InitCodecStream ==
    /\ InitManagers
    /\ fmt_input = <<>>
    /\ fmt_called = FALSE
    /\ fmt_parsed = [ok |-> FALSE, value |-> None]
    /\ fmt_valid = FALSE
    /\ InitFrameBuffer(3)
    /\ \E input \in CodecInputs(StreamDims) : InitCodec(input)

CodecStreamNext ==
    \/ capture_and_compress
    \/ apply_delta_frame
    \/ \E drift \in {0, threshold} : capture_next(drift)

SpecCodecStream == InitCodecStream /\ [][CodecStreamNext]_vars

(***************************************************************************)
(* Specification of the keyboard of the enhanced input manager             *)
(***************************************************************************)
KeyboardNext ==
    \/ \E event \in KeyboardEvent : enhanced_handle_keyboard_event(event)
    \/ \E new_config \in InputConfigs : input_update_config(new_config)

SpecKeyboard == Init /\ [][KeyboardNext]_vars

(***************************************************************************)
(* Specification of one file transfer, every chunk sent and received once  *)
(***************************************************************************)
TransferNext ==
    \/ \E file \in TransferFiles, new_config \in TransferConfigs : send_file(file, new_config)
    \/ accept_file_transfer
    \/ \E chunk_index \in 0..MaxFileSize, shorter \in BOOLEAN : send_chunk(chunk_index, shorter)
    \/ \E chunk_index \in 0..MaxFileSize : receive_chunk(chunk_index)

SpecTransfer == Init /\ [][TransferNext]_vars

(***************************************************************************)
(* Specification of bring-up against the clock                             *)
(***************************************************************************)
TimeoutNext ==
    \/ \E numeric_id \in IdSpace : cm_initialize(numeric_id)
    \/ \E p2p_bind_ok \in BOOLEAN, relay_reachable \in BOOLEAN :
          start_hosting(p2p_bind_ok, relay_reachable)
    \/ \E p2p_connected \in BOOLEAN, relay_reachable \in BOOLEAN :
          connect_to_host(p2p_connected, relay_reachable)
    \/ relay_event_task
    \/ \E msg \in RelayServerMessages : relay_reader(TRUE, msg)
    \/ ConnTick

SpecTimeout == Init /\ [][TimeoutNext]_vars

(***************************************************************************)
(* Specification of a session: a connection brought up and torn down while *)
(* permissions are requested and granted                                   *)
(***************************************************************************)
SessionNext ==
    \/ \E numeric_id \in IdSpace : cm_initialize(numeric_id)
    \/ \E a \in BOOLEAN, b \in BOOLEAN : connect_to_host(a, b)
    \/ disconnect
    \/ \E c \in ConnIds, ps \in PermSets : request_permission(c, ps)
    \/ \E r \in 1..MaxRequests, resp \in PermissionResponses : respond_to_request(r, resp)

SpecSession == Init /\ [][SessionNext]_vars

(***************************************************************************)
(* Specification of the Request Arbiter                                    *)
(***************************************************************************)
ArbNext ==
    \/ create_connection_request
    \/ \E r \in DiscoveryIds : handle_incoming_discovery_request(r)
    \/ \E r \in ArbIds, accepted \in BOOLEAN : arb_respond_to_request(r, accepted)
    \/ \E r \in ArbIds : cancel_request(r)
    \/ run_cleanup_task
    \/ ArbTick

SpecArb == Init /\ [][ArbNext]_vars

(***************************************************************************)
(* Properties                                                              *)
(***************************************************************************)

\* C1: while the most recent grant of c (capabilities C, duration d, not
\* revoked since) has not reached granted_at + d, or has no duration,
\* check_permission(c, x) is true exactly for the x in C; once now is past its
\* expiry check_permission(c, x) is false for every x, swept or not; and with no
\* grant for c it is false.
C1_CheckPermission ==
    \A c \in ConnIds, x \in Permission :
        IF last_grant[c] = <<>>
        THEN ~check_permission(c, x)
        ELSE LET g == last_grant[c][1]
             IN /\ (~g.revoked /\ (g.until = None \/ now < g.until))
                      => (check_permission(c, x) <=> x \in g.caps)
                /\ (g.until # None /\ now > g.until) => ~check_permission(c, x)

\* an expired grant the cleanup task has not removed, holding a capability
C1_Witness ==
    \E c \in ConnIds :
        /\ c \in DOMAIN active_grants
        /\ GrantExpired(active_grants[c], now)
        /\ "ScreenView" \in active_grants[c].permissions
        /\ last_grant[c] # <<>>
        /\ ~check_permission(c, "ScreenView")

\* C2: a mouse or keyboard event arriving for a connection is applied only if
\* check_permission(connection_id, InputControl) is true at that moment.
C2_InputGated ==
    [][\A c \in ConnIds :
          (handle_mouse_event(c) \/ handle_keyboard_event(c))
             => (last_input'.applied => check_permission(c, "InputControl"))]_vars

\* C3: a revocation on a connection that holds a grant removes exactly the
\* requested capabilities the grant held (all when none are named), removes the
\* grant when none remains, and emits one PermissionRevoked event carrying the
\* set that was removed.
C3_RevokedSetEvent ==
    [][\A c \in ConnIds, ps \in {<<>>} \cup {<<x>> : x \in PermSets} :
          (revoke_permissions(c, ps) /\ c \in DOMAIN active_grants /\ event_sender)
             => LET held == active_grants[c].permissions
                    removed == IF ps = <<>> THEN held ELSE held \cap ps[1]
                    left == IF c \in DOMAIN active_grants'
                            THEN active_grants'[c].permissions ELSE {}
                IN /\ left = held \ removed
                   /\ (left = {} => c \notin DOMAIN active_grants')
                   /\ emitted' = <<[type |-> "PermissionRevoked", connection_id |-> c,
                                    permissions |-> removed]>>]_vars

\* C4: a permission request made while the store holds at least
\* max_concurrent_connections unexpired grants is rejected and changes neither
\* the pending requests nor the grants.
C4_LimitRejects ==
    [][\A c \in ConnIds, ps \in PermSets :
          (/\ request_permission(c, ps)
           /\ Cardinality({g \in DOMAIN active_grants :
                              ~GrantExpired(active_grants[g], now)})
                 >= config.max_concurrent_connections)
             => (/\ perm_result' = "Err"
                 /\ pending_requests' = pending_requests
                 /\ active_grants' = active_grants)]_vars

\* C5: once a connection that was Connected or in bring-up has been torn down
\* by disconnect, no grant remains in the store.
C5_NoGrantAfterTeardown ==
    [][(disconnect /\ connection_status.tag \in {"Connected", "Connecting"})
          => DOMAIN active_grants' = {}]_vars

\* C6: once a request id has left the Pending set (responded to, cancelled or
\* evicted), a further respond for that id fails and publishes nothing.
C6_OutcomeOnce ==
    [][\A r \in ArbIds, accepted \in BOOLEAN :
          (arb_respond_to_request(r, accepted) /\ arb_left[r] # {})
             => (arb_result' = "Err" /\ arb_outcomes' = arb_outcomes)]_vars

\* C7: a request nobody responded to or cancelled is, from 61 s after it
\* entered the Pending set, no longer pending, and exactly one Expired outcome
\* has been published for it.
C7_ExpiredAfterTtl ==
    \A r \in ArbIds :
        (/\ arb_inserted_at[r] # None
         /\ arb_left[r] \cap {"responded", "cancelled"} = {}
         /\ arb_now >= arb_inserted_at[r] + RequestTimeoutSecs + 1)
           => (/\ r \notin DOMAIN arb_pending
               /\ Cardinality({i \in 1..Len(arb_outcomes[r]) :
                                  arb_outcomes[r][i] = "Expired"}) = 1)

\* C8: when start_hosting or connect_to_host returns on an initialized
\* manager, the status is Connected or Failed, and it is Connected if the call
\* returned success.
C8_BringUpSettles ==
    [][(/\ \E a \in BOOLEAN, b \in BOOLEAN : start_hosting(a, b) \/ connect_to_host(a, b)
        /\ current_connection_id # <<>>)
          => (/\ connection_status'.tag \in {"Connected", "Failed"}
              /\ conn_result'.ok => connection_status'.tag = "Connected")]_vars

\* C9: in a bring-up call on an initialized manager, a P2P failure with auto_fallback off is followed by
\* no relay attempt; with auto_fallback on (and a relay client enabled) the
\* relay attempt follows, and if it fails its reason is the one in
\* Failed(reason).
C9_FallbackDeterministic ==
    [][(/\ \E a \in BOOLEAN, b \in BOOLEAN : start_hosting(a, b) \/ connect_to_host(a, b)
        /\ current_connection_id # <<>>)
          => (conn_result'.p2p = "failed"
                => /\ ~conn_config.auto_fallback_to_relay => conn_result'.relay = "none"
                   /\ (conn_config.auto_fallback_to_relay /\ conn_config.relay_enabled
                         /\ relay_client) => conn_result'.relay # "none"
                   /\ conn_result'.relay = "failed"
                         => connection_status' = Failed(conn_result'.err))]_vars

\* C10: with p2p_enabled, relay_enabled and auto_fallback on, start_hosting on an
\* initialized manager whose P2P bind fails while the relay is reachable ends
\* with status Connected(Relay) and a 7-digit id from get_connection_id().
C10_RelayFallbackConnected ==
    [][(/\ start_hosting(FALSE, TRUE)
        /\ conn_config = DefaultConnectionConfig
        /\ current_connection_id # <<>>
        /\ p2p_manager /\ relay_client /\ relay_enabled_copy)
          => (/\ connection_status' = Connected("Relay")
              /\ get_connection_id # <<>>
              /\ Len(get_connection_id[1]) = 7)]_vars

\* C11: on an initialized manager the status is never Connecting for longer
\* than connection_timeout_seconds: when the timeout elapses the attempt is
\* aborted and the status becomes Failed.
C11_ConnectingBounded ==
    (connection_status.tag = "Connecting" /\ current_connection_id # <<>>)
       => status_age <= connection_timeout_seconds

\* C12: send_screen_frame and send_input_event called while the status is
\* Disconnected, Connecting or Failed return the no-active-connection error,
\* hand nothing to a transport and leave the status as it was.
C12_SendNotConnected ==
    [][((send_screen_frame \/ send_input_event)
          /\ connection_status.tag \in {"Disconnected", "Connecting", "Failed"})
         => (/\ ~conn_result'.ok
             /\ conn_result'.err \in {"No active connection to send screen frame",
                                      "No active connection to send input event"}
             /\ conn_result'.p2p = "none" /\ conn_result'.relay = "none"
             /\ connection_status' = connection_status)]_vars

\* a send refused while the relay socket is open and the status is Connecting
C12_Witness ==
    /\ conn_result.op \in {"send_screen_frame", "send_input_event"}
    /\ ~conn_result.ok
    /\ connection_status.tag = "Connecting"
    /\ relay_is_connected

\* C13: once the relay connection has been closed by the peer or has failed,
\* its reader has ended and the relay events have been handled, the status is
\* no longer Connected(Relay) and no send is accepted for the relay.
C13_ClosedTransportTearsDown ==
    [][((send_screen_frame \/ send_input_event)
          /\ relay_connection_id # <<>> /\ ~relay_is_connected /\ relay_events = <<>>
          /\ relay_readers + relay_orphan_readers = 0)
         => (/\ connection_status # Connected("Relay")
             /\ ~(conn_result'.ok /\ conn_result'.relay = "ok"))]_vars

C15_SingleLiveManager ==
    /\ (cmd_result.op = "get_connection_status" /\ cmd_hosting # "none")
          => cmd_result.value \in {"connected_p2p", "connected_relay"}
    /\ (cmd_result.op = "respond_to_permission_request"
            /\ cmd_result.request_id \in DOMAIN cmd_requested)
          => cmd_result.ok
    /\ (cmd_result.op = "check_permission" /\ cmd_result.connection_id \in cmd_granted)
          => cmd_result.value = "true"

\* C16: no id is outstanding twice: between a mint that returned it and its
\* release no other mint returns it, whatever the interleaving.
C16_IdsUnique == \A numeric_id \in DOMAIN outstanding : outstanding[numeric_id] <= 1

C18_ReservedOnlyWhileLive ==
    /\ \A numeric_id \in host_used_ids :
          host_is_host /\ host_current_connection_id = <<numeric_id>>
    /\ (\/ host_result.op \in {"stop_host", "disconnect"}
        \/ (host_result.op = "start_host" /\ ~host_result.ok))
          => (host_used_ids = {} /\ ~host_is_host)

\* C19: parse accepts a string exactly when what is left of it after its
\* whitespace and hyphens are removed is seven ASCII digits, and then returns
\* the decimal value of those digits.
C19_ParseAccepts ==
    LET stripped == SelectSeq(fmt_input, LAMBDA c : c \notin {" ", "\t", "-"})
        seven_digits == /\ Len(stripped) = 7
                        /\ \A i \in 1..Len(stripped) : is_ascii_digit(stripped[i])
    IN fmt_called => /\ fmt_parsed.ok <=> seven_digits
                     /\ fmt_parsed.ok => fmt_parsed.value = DecimalValue(stripped)

\* C20: validate answers true for a string exactly when parse accepts it.
C20_ValidateIffParse == fmt_called => (fmt_valid <=> fmt_parsed.ok)

\* C21: whatever calls were made, the buffer holds at most N frames, N being the
\* max_size it was built with, and total_bytes is the sum of the sizes of the
\* frames it holds.
C21_BufferBounded ==
    /\ Len(fb_buffer) <= fb_max_size
    /\ fb_total_bytes = SumSizes(fb_buffer)

\* C22: the frames held carry strictly increasing frame ids from the front
\* (oldest) to the back (newest), also when add_frame runs on several threads.
C22_IdsIncreasing ==
    \A i \in 1..Len(fb_buffer) - 1 : fb_buffer[i].frame_id < fb_buffer[i + 1].frame_id

\* C23: a buffer built with N = 0 never holds a frame: its count and its
\* total_bytes are 0 and get_latest_frame returns None.
C23_ZeroCapacityEmpty ==
    fb_max_size = 0 => (Len(fb_buffer) = 0 /\ fb_total_bytes = 0 /\ get_latest_frame = <<>>)

\* C24: at most one streaming loop is capturing and emitting for a Streamer
\* while it is streaming, whatever start and stop calls were made.
C24_OneTicker == is_streaming => stream_loops <= 1

\* C25: a frame is pushed (and its FrameReady sent) only while the Streamer is
\* Running, never between a stop and the next start, and adjust_quality on a
\* Streamer that is not Running is not accepted.
C25_OnlyRunningEmits ==
    [][/\ stream_frames' # stream_frames => is_streaming
       /\ \A new_quality \in {0, 1, 100, 101} :
             (adjust_quality(new_quality) /\ ~is_streaming)
                => (~stream_quality_result'.ok /\ stream_quality' = stream_quality)]_vars

\* C26: the encoder emits Full when it is given no previous frame or one of
\* other dimensions; otherwise, with the changed 16x16 blocks counted against
\* all blocks, NoChange with block_count 0 when none changed, Full when more
\* than half changed, and else a Delta that lists exactly the changed blocks
\* with their x, y, width and height.
C26_EncoderChoice ==
    codec_pc # "captured" =>
        IF codec_previous = <<>>
        THEN codec_frame.frame_type = "Full"
        ELSE IF \/ codec_previous[1].width # codec_image.width
                \/ codec_previous[1].height # codec_image.height
        THEN codec_frame.frame_type = "Full"
        ELSE LET w == codec_image.width
                 h == codec_image.height
                 grid == {[x |-> x, y |-> y, width |-> Min(16, w - x),
                           height |-> Min(16, h - y)] :
                              x \in {k \in 0..w - 1 : k % 16 = 0},
                              y \in {k \in 0..h - 1 : k % 16 = 0}}
                 changed == {b \in grid : block_changed(codec_image, codec_previous[1],
                                                        b.x, b.y, b.width, b.height)}
                 listed == {[x |-> b.x, y |-> b.y, width |-> b.width, height |-> b.height] :
                               b \in {codec_frame.blocks[i] : i \in DOMAIN codec_frame.blocks}}
             IN IF changed = {}
                THEN codec_frame.frame_type = "NoChange" /\ codec_frame.block_count = 0
                     /\ codec_frame.blocks = <<>>
                ELSE IF 2 * Cardinality(changed) > Cardinality(grid)
                THEN codec_frame.frame_type = "Full"
                ELSE /\ codec_frame.frame_type = "Delta"
                     /\ codec_frame.block_count = Cardinality(changed)
                     /\ Len(codec_frame.blocks) = Cardinality(changed)
                     /\ listed = changed

\* a Delta was emitted for a frame with a clipped block, with exactly half of
\* the blocks changed
C26_Witness ==
    /\ codec_pc = "encoded"
    /\ codec_frame.frame_type = "Delta"
    /\ 2 * codec_frame.block_count = total_blocks(codec_image.width, codec_image.height)
    /\ \E i \in DOMAIN codec_frame.blocks : codec_frame.blocks[i].width < 16

\* C27: the decoder accepts every frame the encoder emits: NoChange leaves the
\* base frame as it was, Full replaces the whole base frame by the decoded
\* image, Delta overwrites the listed rectangles and leaves every pixel outside
\* them unchanged.
C27_DecoderApplies ==
    codec_pc = "decoded" =>
        /\ codec_decode_ok
        /\ codec_frame.frame_type = "NoChange" => codec_decoded = codec_base
        /\ codec_frame.frame_type = "Full" => codec_decoded = codec_frame.image[1]
        /\ codec_frame.frame_type = "Delta" =>
              \A p \in DOMAIN codec_base.pixels :
                  (\A i \in DOMAIN codec_frame.blocks :
                      LET b == codec_frame.blocks[i]
                      IN ~(/\ p[1] >= b.x /\ p[1] < b.x + b.width
                           /\ p[2] >= b.y /\ p[2] < b.y + b.height))
                    => codec_decoded.pixels[p] = codec_base.pixels[p]

\* C28: whatever Announce, Response, ConnectionRequest and Goodbye messages the
\* listener has received, the peer table holds no record whose device_id or
\* ip_address is that of the local host.
C28_NoSelfRecord ==
    \A d \in discovered_devices :
        /\ d.device_id # local_device_info.device_id
        /\ d.ip_address # local_device_info.ip_address

\* the listener has just received an Announce or a Response that carries the
\* local device id or the local address, while the table holds a peer
C28_Witness ==
    /\ disc_step.kind \in {"Announce", "Response"}
    /\ disc_step.from_self
    /\ discovered_devices # {}

\* C29: no two records of the peer table advertise the same IP address, and a
\* record that an insert puts into the table carries the current time and is
\* the only record with its address: the record that held the address is gone.
C29_OneRecordPerIp ==
    /\ [](\A d, e \in discovered_devices : d.ip_address = e.ip_address => d = e)
    /\ [][\A d \in discovered_devices' \ discovered_devices :
             /\ d.last_seen = disc_now
             /\ \A e \in discovered_devices' : e.ip_address = d.ip_address => e = d
             /\ \A e \in discovered_devices :
                   (e.ip_address = d.ip_address /\ e.device_id # d.device_id)
                       => e \notin discovered_devices']_vars

\* an insert has just replaced the record of another device that advertised
\* the same address, next to a record with another address
C29_Witness ==
    /\ disc_step.replaced
    /\ Cardinality(discovered_devices) = 2
    /\ \E d \in discovered_devices : d.last_seen = disc_now /\ disc_now > 0

\* C30: a sweep removes exactly the records whose last_seen is more than
\* DEVICE_TIMEOUT seconds old, and every step that changes the peer table sends
\* the table it leaves on device_updates_tx.
C30_SweepAndEmit ==
    [][/\ discovery_run_cleanup_task
            => discovered_devices' =
                  {d \in discovered_devices : ~(disc_now - d.last_seen > DEVICE_TIMEOUT)}
       /\ discovered_devices' # discovered_devices
            => (/\ device_updates' = device_updates + 1
                /\ device_updates_last' = discovered_devices')]_vars

\* C31: stop broadcasts a Goodbye and clears the peer table, and while the
\* service is stopped the table stays empty, whatever message the listener was
\* handling when stop was called.
C31_StoppedTableEmpty ==
    /\ [](~disc_is_running => discovered_devices = {})
    /\ [][(discovery_stop /\ disc_is_running)
             => (disc_goodbyes' = disc_goodbyes + 1 /\ discovered_devices' = {})]_vars

\* C36: no Announce is broadcast while the service is stopped, and a running
\* service has at most one announcer task.
C36_OneAnnouncer ==
    /\ ~disc_announce_stopped
    /\ disc_is_running => disc_announcers_checking + disc_announcers_ticking <= 1

\* C33: once disconnect has returned and until the next call on the manager,
\* the status is Disconnected, also when a registration response of the earlier
\* session arrives afterwards.
C33_DisconnectedStays ==
    conn_result.op = "disconnect" => connection_status = Disconnected

\* C35: in the Relay Client registered implies connected, so that a send on a
\* connection that is down does not report success.
C35_RegisteredImpliesConnected ==
    /\ [](relay_is_registered => relay_is_connected)
    /\ [][((send_screen_frame \/ send_input_event)
              /\ send_transport = "Relay" /\ relay_client /\ conn_result'.ok)
            => relay_is_connected]_vars

\* C32: concurrent calls on one Connection Manager never deadlock: while calls
\* are in progress, one of them is not waiting for a lock that cannot be granted.
C32_NoDeadlock ==
    LockInProgress # {} => \E t \in LockInProgress : ~LockBlocked(t)

\* C34: no request, response, auto-grant, revocation or expiry takes the number
\* of active grants over max_concurrent_connections: a step that leaves the
\* configuration alone and starts within the limit ends within it.
C34_GrantsWithinLimit ==
    [][(/\ config' = config
        /\ Cardinality(DOMAIN active_grants) <= config.max_concurrent_connections)
          => Cardinality(DOMAIN active_grants') <= config.max_concurrent_connections]_vars

\* C37: after stop_host or disconnect has returned and until start_host is
\* called again, the host registers no new peer connection: active_connections
\* stays as the call left it, empty.
C37_NoAcceptAfterStop ==
    host_result.op \in {"stop_host", "disconnect"} => host_active_connections = {}

\* no block of the decoded image differs from the captured one by the
\* encoder's test of a changed block
InStep(decoded, captured) ==
    /\ decoded.width = captured.width
    /\ decoded.height = captured.height
    /\ \A i \in DOMAIN ScanBlocks(captured.width, captured.height) :
          LET b == ScanBlocks(captured.width, captured.height)[i]
          IN ~block_changed(decoded, captured, b.x, b.y, b.width, b.height)

\* C38: a decoder that applies the frames in order stays in step with the
\* encoder: when it was in step with the frame captured before and accepts the
\* next frame, no block of the image it holds differs from the frame just
\* captured by more than the block-change test allows, however many NoChange or
\* Delta frames came before.
C38_DecoderInStep ==
    (/\ codec_pc = "decoded" /\ codec_decode_ok
     /\ codec_previous # <<>>
     /\ InStep(codec_base, codec_previous[1]))
      => InStep(codec_decoded, codec_image)

\* C39: every modifier handle_keyboard_event presses is released by the time
\* the call returns, whether it returns Ok or an error: the only key a call
\* may leave held that was not held before is the event's own key on KeyDown.
C39_ModifiersReleased ==
    [][\A k \in enigo_held' \ enigo_held :
          /\ kb_result'.event_type = "KeyDown"
          /\ kb_result'.key # <<>>
          /\ convert_key(kb_result'.key) = k]_vars

\* C40: a file transfer round-trips.  receive_chunk writes chunk i at byte
\* offset i * chunk_size, also when the last chunk is short; the transfer is
\* Completed only when the receiver's file holds every byte of the sender's;
\* and once every chunk of the file has been sent and received, in any order,
\* the receiver's file is the sender's, byte for byte, and the transfer is
\* Completed.
C40_RoundTrip ==
    /\ ft_last_write.written
         => ft_last_write.offset = ft_last_write.chunk_index * ft_config.chunk_size
    /\ (ft_download.exists /\ ft_download.status = "Completed") => ft_dest = ft_source
    /\ (/\ ft_download.exists
        /\ ft_source # <<>>
        /\ ft_sent = ChunkIndices(Len(ft_source), ft_config.chunk_size)
        /\ ft_chunks = {})
         => ft_dest = ft_source /\ ft_download.status = "Completed"

====
